---- MODULE Spec2Model ----
(***************************************************************************)
(* A model of the xls_merger scripts.  Every script is a standalone batch  *)
(* program, so every script has a specification of its own:                *)
(*   SpecCompare  excel_compare.py   (the cell-level table differ)         *)
(*   SpecCombine  combine_data.py, create_excel_output.py and              *)
(*                simple_excel_combine.py (the key-joined combiners)       *)
(*   SpecSimple   simple_excel_combine.py alone                            *)
(*   SpecReader   excel_reader.py (the ExcelMultiSheetReader class)        *)
(*   SpecLookup   generate_lookup_table.py                                 *)
(* A property of several scripts is stated on the specification that joins *)
(* them: SpecData joins the scripts that read inputs/data.xlsx, Spec joins *)
(* all the scripts.                                                        *)
(*                                                                         *)
(* A pandas DataFrame is a record [columns, rows]: columns is the sequence *)
(* of column labels, rows the sequence of rows, a row a function from the  *)
(* column labels to cell values.  The pandas index i of a RangeIndex is    *)
(* position i + 1 of the sequence.                                         *)
(***************************************************************************)
EXTENDS Integers, Sequences, FiniteSets, TLC

VARIABLES
    program,        \* the script that runs
    pc,             \* position of the running script
    file1, file2,   \* inputs/response_text.xlsx and inputs/response_text2.xlsx
    df1, df2,       \* compare_excel_files: the two (aligned) DataFrames
    differences,    \* compare_excel_files: the difference matrix
    stats,          \* compare_excel_files: the counts it reports
    workbook,       \* create_comparison_excel: the sheets it writes
    definitions,    \* inputs/data.xlsx, sheet definitions (FDIRs, id)
    monitors,       \* inputs/data.xlsx, sheet monitors (id, mons, thresholds)
    conditions,     \* inputs/data.xlsx, sheet conditions
                    \* (id, condition_mons, counts, response)
    combined_data,  \* combine_data.py: the dict of combined records, in
                    \* insertion order
    csv_rows,       \* combine_data.py: the rows of combined_data.csv
    holistic_data,  \* create_excel_output.py: the rows of Holistic_View
    flat_data,      \* create_excel_output.py: the rows of Combined_Flat
    combined_rows,  \* simple_excel_combine.py: the rows of the flat table
    data_exists,    \* whether there is a file at the reader's file_path
    xl_file,        \* ExcelMultiSheetReader.xl_file
    sheets_data,    \* ExcelMultiSheetReader.sheets_data
    returned,       \* what the last operation returned
    reported,       \* the file or column names the last operation reported
                    \* as missing
    outputs,        \* the files written by excel_compare.py,
                    \* simple_excel_combine.py, generate_lookup_table.py
                    \* and the reader's exports
    data_corrupt,   \* whether the file at inputs/data.xlsx is no workbook
    locked,         \* whether the default output path was open in another
                    \* program when the script tried it
    response_lookup,    \* simple_excel_combine.py: the workbook
                        \* outputs/response_lookup_table_updated.xlsx as read
    output_file,    \* the path the script chose for its workbook
    df_merged,      \* simple_excel_combine.py: the rows of Combined_Data
    clean_lookup_dict   \* generate_lookup_table.py: the lookup, in
                        \* insertion order

compareVars == <<file1, file2, df1, df2, differences, stats, workbook>>

combineVars == <<definitions, monitors, conditions, combined_data, csv_rows,
                 holistic_data, flat_data, combined_rows>>

readerVars == <<data_exists, xl_file, sheets_data>>

runVars == <<returned, reported, outputs>>

ioVars == <<data_corrupt, locked, response_lookup, output_file, df_merged,
            clean_lookup_dict>>

vars == <<program, pc, compareVars, combineVars, readerVars, runVars, ioVars>>

----------------------------------------------------------------------------
(* Bounds of the model.                                                    *)

MaxRows == 2

MaxDefs == 2

MaxMons == 2

MaxConds == 2

\* rows of outputs/response_lookup_table_updated.xlsx
MaxLookup == 2

\* rows of inputs/response_text.xlsx as generate_lookup_table.py reads it
MaxLookupRows == 3

Headers == {<<>>, <<"id">>, <<"val">>, <<"id", "val">>}

----------------------------------------------------------------------------
(* Helpers.                                                                *)

Max(a, b) == IF a >= b THEN a ELSE b

Range(s) == {s[i] : i \in DOMAIN s}

Perms(S) == {p \in [1..Cardinality(S) -> S] : \A i, j \in DOMAIN p : p[i] = p[j] => i = j}

----------------------------------------------------------------------------
(* Cell values.  A worksheet cell is empty, a number or a text; a          *)
(* DataFrame cell is NaN, an int, a float or a str.                        *)

Empty == [t |-> "empty", n |-> 0, s |-> ""]

Num(k) == [t |-> "num", n |-> k, s |-> ""]

Text(x) == [t |-> "text", n |-> 0, s |-> x]

NaN == [t |-> "nan", n |-> 0, s |-> ""]

IntVal(k) == [t |-> "int", n |-> k, s |-> ""]

FloatVal(k) == [t |-> "float", n |-> k, s |-> ""]

StrVal(x) == [t |-> "str", n |-> 0, s |-> x]

RawCells == {Empty, Num(5), Text("5"), Text("x")}

\* The cells a column of the input workbooks may hold: an id is always the
\* number 5, any other column holds any cell.
CellsOf(c) == IF c = "id" THEN {Num(5)} ELSE RawCells

\* pd.isna / pd.notna of a scalar
IsNa(v) == v.t = "nan"

\* Python's str() of a DataFrame cell: an int prints its digits, an
\* integral float prints with ".0", a str is itself, NaN prints "nan".
Str(v) ==
    CASE v.t = "str" -> v.s
      [] v.t = "int" -> ToString(v.n)
      [] v.t = "float" -> ToString(v.n) \o ".0"
      [] OTHER -> "nan"

----------------------------------------------------------------------------
(* Workbooks and pd.read_excel.                                            *)

\* no workbook at the path
Missing == [kind |-> "missing"]

\* a file at the path that is no workbook: pd.read_excel raises on it
Corrupt == [kind |-> "corrupt"]

SheetsOf(hdr) ==
    UNION {{[kind |-> "sheet", columns |-> hdr, rows |-> rs] :
                rs \in [1..n -> {r \in [Range(hdr) -> RawCells] :
                                     \A c \in Range(hdr) : r[c] \in CellsOf(c)}]} :
           n \in 0..(IF hdr = <<>> THEN 0 ELSE MaxRows)}

Sheets == UNION {SheetsOf(hdr) : hdr \in Headers}

EmptyFrame == [columns |-> <<>>, rows |-> <<>>]

\* What an operation returned: the operation as <<name>> or <<name,
\* argument>>, the kind of value (True, False, None, a dict, a DataFrame),
\* the keys of a dict and the rows of a DataFrame.
Returned(op, kind, keys, rows) == [op |-> op, kind |-> kind, keys |-> keys, rows |-> rows]

NothingReturned == Returned(<<>>, "", {}, <<>>)

\* the state of the scripts that do not run
IdleReader == data_exists = FALSE /\ xl_file = "None" /\ sheets_data = <<>>

IdleRun == returned = NothingReturned /\ reported = <<>> /\ outputs = {}

IdleOutput ==
    /\ locked = FALSE
    /\ response_lookup = Missing
    /\ output_file = ""
    /\ df_merged = <<>>
    /\ clean_lookup_dict = <<>>

IdleIo == data_corrupt = FALSE /\ IdleOutput

\* inputs/data.xlsx is there and is a workbook
Readable == data_exists /\ ~data_corrupt

\* datetime.now().strftime("%Y%m%d_%H%M%S")
Timestamp == "YYYYMMDD_HHMMSS"

\* Whether the default output path is open in another program when the
\* script tries it: either way in a run on a small input, not open in a run
\* on a larger one.
LockChoices(small) == IF small THEN BOOLEAN ELSE {FALSE}

\* OutputPath taking the default path whether it is open elsewhere or not
OutputPath_Default(base, is_locked) == base \o ".xlsx"

\* excel_compare.py lines 283-298 and simple_excel_combine.py lines 94-106:
\* open(output_file, 'a') fails with PermissionError on a path that is
\* open in another program, and the path with the timestamp is taken
OutputPath(base, is_locked) ==
    IF is_locked THEN base \o "_" \o Timestamp \o ".xlsx" ELSE base \o ".xlsx"

\* pandas' dtype inference of a column read from a worksheet: a column
\* that holds a text is an object column and keeps each number as an int;
\* a column of numbers only is int64; a column of numbers with an empty
\* cell is float64, where the number 5 is the float 5.0.
ColumnIsFloat(sheet, c) ==
    /\ \A i \in DOMAIN sheet.rows : sheet.rows[i][c].t # "text"
    /\ \E i \in DOMAIN sheet.rows : sheet.rows[i][c].t = "empty"

ConvertCell(cell, asFloat) ==
    CASE cell.t = "empty" -> NaN
      [] cell.t = "text" -> StrVal(cell.s)
      [] OTHER -> IF asFloat THEN FloatVal(cell.n) ELSE IntVal(cell.n)

ReadExcel(sheet) ==
    [columns |-> sheet.columns,
     rows |-> [i \in DOMAIN sheet.rows |->
                 [c \in Range(sheet.columns) |->
                    ConvertCell(sheet.rows[i][c], ColumnIsFloat(sheet, c))]]]

----------------------------------------------------------------------------
(* compare_excel_files                                                     *)

\* PadRows with the empty rows put before the original rows
PadRows_Prepend(df, max_rows) ==
    [columns |-> df.columns,
     rows |-> [i \in 1..Max(Len(df.rows), max_rows) |->
                 IF i > Max(Len(df.rows), max_rows) - Len(df.rows)
                 THEN df.rows[i - (Max(Len(df.rows), max_rows) - Len(df.rows))]
                 ELSE [c \in Range(df.columns) |-> NaN]]]

\* lines 43-45 and 48-50: extend a frame to max_rows rows
PadRows(df, max_rows) ==
    [columns |-> df.columns,
     rows |-> [i \in 1..Max(Len(df.rows), max_rows) |->
                 IF i <= Len(df.rows) THEN df.rows[i]
                 ELSE [c \in Range(df.columns) |-> NaN]]]

\* ColumnUnion keeping the common columns only
ColumnUnion_Intersection(a, b) == Range(a.columns) \cap Range(b.columns)

\* line 53: the set union of the two column indexes
ColumnUnion(a, b) == Range(a.columns) \cup Range(b.columns)

\* Reindex giving every cell of the reordered frame as NaN
Reindex_Fresh(df, all_columns) ==
    [columns |-> all_columns,
     rows |-> [i \in DOMAIN df.rows |-> [c \in Range(all_columns) |-> NaN]]]

\* lines 55-63: add the missing columns as NaN and reorder
Reindex(df, all_columns) ==
    [columns |-> all_columns,
     rows |-> [i \in DOMAIN df.rows |->
                 [c \in Range(all_columns) |->
                    IF c \in Range(df.columns) THEN df.rows[i][c] ELSE NaN]]]

\* CompareCell comparing the values instead of their string forms
CompareCell_NoStr(val1, val2) ==
    IF IsNa(val1) /\ IsNa(val2) THEN "SAME"
    ELSE IF IsNa(val1) \/ IsNa(val2) THEN "DIFFERENT"
    ELSE IF val1 = val2 THEN "SAME"
    ELSE "DIFFERENT"

\* CompareCell with the first test on val1 alone
CompareCell_OneSided(val1, val2) ==
    IF IsNa(val1) THEN "SAME"
    ELSE IF IsNa(val1) \/ IsNa(val2) THEN "DIFFERENT"
    ELSE IF Str(val1) = Str(val2) THEN "SAME"
    ELSE "DIFFERENT"

\* lines 74-81: the classification of one cell
CompareCell(val1, val2) ==
    IF IsNa(val1) /\ IsNa(val2) THEN "SAME"
    ELSE IF IsNa(val1) \/ IsNa(val2) THEN "DIFFERENT"
    ELSE IF Str(val1) = Str(val2) THEN "SAME"
    ELSE "DIFFERENT"

\* DifferenceMatrix leaving the cells of two NaN values unset
DifferenceMatrix_Unset(a, b) ==
    [columns |-> a.columns,
     rows |-> [i \in DOMAIN a.rows |->
                 [c \in Range(a.columns) |->
                    IF IsNa(a.rows[i][c]) /\ IsNa(b.rows[i][c]) THEN "UNSET"
                    ELSE CompareCell(a.rows[i][c], b.rows[i][c])]]]

\* lines 66-81: the matrix over df1's index and columns
DifferenceMatrix(a, b) ==
    [columns |-> a.columns,
     rows |-> [i \in DOMAIN a.rows |->
                 [c \in Range(a.columns) |-> CompareCell(a.rows[i][c], b.rows[i][c])]]]

\* line 86: DataFrame.size
Size(df) == Len(df.rows) * Len(df.columns)

\* line 87: (differences == 'DIFFERENT').sum().sum()
CountCells(m, what) ==
    Cardinality({rc \in (DOMAIN m.rows) \X Range(m.columns) : m.rows[rc[1]][rc[2]] = what})

\* CountDifferent counting the rows that hold a difference
CountDifferent_Rows(m) ==
    Cardinality({i \in DOMAIN m.rows : \E c \in Range(m.columns) : m.rows[i][c] = "DIFFERENT"})

CountDifferent(m) == CountCells(m, "DIFFERENT")

\* lines 38-63: both frames aligned, all_columns being the order in which
\* the set of line 53 is listed
Aligned(a, b, all_columns) ==
    LET max_rows == Max(Len(a.rows), Len(b.rows))
    IN  [df1 |-> Reindex(PadRows(a, max_rows), all_columns),
         df2 |-> Reindex(PadRows(b, max_rows), all_columns)]

\* line 94: different_cells/total_cells*100, kept as a fraction.  With no
\* cell the division is 0/0: numpy yields nan for a numpy count, Python
\* raises ZeroDivisionError for a Python count.
Percentage(different_cells, total_cells) ==
    [kind |-> "number", num |-> different_cells * 100, den |-> total_cells]

NoStats == [total_cells |-> 0, different_cells |-> 0, same_cells |-> 0,
            percentage |-> [kind |-> "none", num |-> 0, den |-> 1]]

Stats(m) ==
    LET total_cells == Size(m)
        different_cells == CountDifferent(m)
        same_cells == total_cells - different_cells
    IN  [total_cells |-> total_cells,
         different_cells |-> different_cells,
         same_cells |-> same_cells,
         percentage |-> IF total_cells # 0
                        THEN Percentage(different_cells, total_cells)
                        ELSE [kind |-> "nan", num |-> 0, den |-> 0]]

----------------------------------------------------------------------------
(* create_comparison_excel                                                 *)

\* lines 130-133 and 157-160: the value written for a cell of an
\* Original_File sheet
CellValue(value) == IF ~IsNa(value) THEN value ELSE StrVal("")

\* lines 119-140 and 146-167: an Original_File sheet, every cell with the
\* value written and whether it got the difference fill
OriginalSheet(df, m) ==
    [columns |-> df.columns,
     rows |-> [i \in DOMAIN df.rows |->
                 [c \in Range(df.columns) |->
                    [value |-> CellValue(df.rows[i][c]),
                     diff_fill |-> m.rows[i][c] = "DIFFERENT"]]]]

\* SummaryValue writing "nan" for an empty cell
SummaryValue_Nan(val) == StrVal(Str(val))

\* lines 191-192: the text written for a value of the summary
SummaryValue(val) == IF ~IsNa(val) THEN StrVal(Str(val)) ELSE StrVal("")

\* lines 189-192: one row of the Differences_Summary sheet; df_row is the
\* position of the row, which is the pandas index plus one
SummaryRow(a, b, df_row, col_name) ==
    [row |-> df_row,
     column |-> col_name,
     value1 |-> SummaryValue(a.rows[df_row][col_name]),
     value2 |-> SummaryValue(b.rows[df_row][col_name])]

\* lines 183-184: the cells in the order the two loops visit them
CellOrder(a) ==
    [k \in 1..(Len(a.rows) * Len(a.columns)) |->
        <<((k - 1) \div Len(a.columns)) + 1, a.columns[((k - 1) % Len(a.columns)) + 1]>>]

\* lines 182-198: the rows of the Differences_Summary sheet
SummaryRows(a, b, m) ==
    LET IsDifferent(rc) == m.rows[rc[1]][rc[2]] = "DIFFERENT"
        hits == SelectSeq(CellOrder(a), IsDifferent)
    IN  [k \in DOMAIN hits |-> SummaryRow(a, b, hits[k][1], hits[k][2])]

NoWorkbook == [sheets |-> <<>>, original1 |-> EmptyFrame, original2 |-> EmptyFrame,
               summary |-> <<>>]

\* ComparisonWorkbook with the Differences_Summary sheet in every workbook
ComparisonWorkbook_AlwaysSummary(a, b, m) ==
    [sheets |-> <<"Original_File1", "Original_File2", "Differences_Summary">>,
     original1 |-> OriginalSheet(a, m),
     original2 |-> OriginalSheet(b, m),
     summary |-> SummaryRows(a, b, m)]

\* lines 98-232
ComparisonWorkbook(a, b, m) ==
    LET different_cells == CountDifferent(m)
    IN  [sheets |-> IF different_cells > 0
                    THEN <<"Original_File1", "Original_File2", "Differences_Summary">>
                    ELSE <<"Original_File1", "Original_File2">>,
         original1 |-> OriginalSheet(a, m),
         original2 |-> OriginalSheet(b, m),
         summary |-> IF different_cells > 0 THEN SummaryRows(a, b, m) ELSE <<>>]

----------------------------------------------------------------------------
(* excel_compare.py as a program                                           *)

InitCompare ==
    /\ program = "excel_compare"
    /\ pc = "start"
    /\ file1 \in Sheets \cup {Missing, Corrupt}
    /\ file2 \in Sheets \cup {Missing, Corrupt}
    /\ df1 = EmptyFrame
    /\ df2 = EmptyFrame
    /\ differences = EmptyFrame
    /\ stats = NoStats
    /\ workbook = NoWorkbook
    /\ definitions = <<>>
    /\ monitors = <<>>
    /\ conditions = <<>>
    /\ combined_data = <<>>
    /\ csv_rows = <<>>
    /\ holistic_data = <<>>
    /\ flat_data = <<>>
    /\ combined_rows = <<>>
    /\ IdleReader
    /\ IdleRun
    /\ IdleIo

\* main, lines 262-269: a missing input file is named and main returns
MainFileNotFound ==
    /\ program = "excel_compare"
    /\ pc = "start"
    /\ file1 = Missing \/ file2 = Missing
    /\ reported' = <<IF file1 = Missing THEN "inputs/response_text.xlsx"
                     ELSE "inputs/response_text2.xlsx">>
    /\ pc' = "not_found"
    /\ UNCHANGED <<program, compareVars, combineVars, readerVars, returned, outputs, ioVars>>

\* compare_excel_files, lines 27-36, on a file that pd.read_excel cannot
\* read: the handler prints the error and returns None, None, None; main,
\* lines 272-275, returns on df1 is None
CompareLoadFailed ==
    /\ program = "excel_compare"
    /\ pc = "start"
    /\ file1 # Missing /\ file2 # Missing
    /\ file1 = Corrupt \/ file2 = Corrupt
    /\ returned' = Returned(<<"compare_excel_files">>, "None", {}, <<>>)
    /\ pc' = "load_failed"
    /\ UNCHANGED <<program, compareVars, combineVars, readerVars, reported, outputs, ioVars>>

\* The division of line 94 has no guard.  With no cell it is 0/0: the
\* count of line 87 is a numpy integer when the matrix has columns, and
\* the quotient is then nan; with no column the count is a numpy or a
\* Python zero, depending on the dtype pandas gives the empty sum, and a
\* Python zero raises ZeroDivisionError.
CompareExcelFiles ==
    /\ program = "excel_compare"
    /\ pc = "start"
    /\ file1.kind = "sheet" /\ file2.kind = "sheet"
    /\ \E all_columns \in Perms(ColumnUnion(ReadExcel(file1), ReadExcel(file2))) :
         LET al == Aligned(ReadExcel(file1), ReadExcel(file2), all_columns)
             m == DifferenceMatrix(al.df1, al.df2)
         IN  /\ df1' = al.df1
             /\ df2' = al.df2
             /\ differences' = m
             /\ \/ /\ stats' = Stats(m)
                   /\ pc' = "compared"
                \/ /\ Size(m) = 0
                   /\ all_columns = <<>>
                   /\ stats' = [Stats(m) EXCEPT !.percentage.kind = "ZeroDivisionError"]
                   /\ pc' = "crashed"
    /\ UNCHANGED <<program, file1, file2, workbook, combineVars, readerVars, runVars, ioVars>>

\* main, lines 277-305: the path of the workbook is chosen, then
\* create_comparison_excel and create_comparison_csvs write their files
CreateComparisonExcel ==
    /\ program = "excel_compare"
    /\ pc = "compared"
    /\ \E is_locked \in LockChoices(Len(df1.rows) <= 1) :
         /\ locked' = is_locked
         /\ output_file' = OutputPath("outputs/excel_comparison", is_locked)
         /\ outputs' = {OutputPath("outputs/excel_comparison", is_locked),
                        "outputs/comparison_file1.csv", "outputs/comparison_file2.csv"}
    /\ workbook' = ComparisonWorkbook(df1, df2, differences)
    /\ pc' = "written"
    /\ UNCHANGED <<program, file1, file2, df1, df2, differences, stats, combineVars,
                   readerVars, returned, reported, data_corrupt, response_lookup,
                   df_merged, clean_lookup_dict>>

NextCompare ==
    \/ MainFileNotFound
    \/ CompareLoadFailed
    \/ CompareExcelFiles
    \/ CreateComparisonExcel

SpecCompare == InitCompare /\ [][NextCompare]_vars

----------------------------------------------------------------------------
(* inputs/data.xlsx: the three sheets the combiners read.                  *)

Keys == {"fpu_batt", "fpu_tracker"}

Names == {"Battery", "Tracker"}

\* the ids the scripts know, in the ascending order of Python's sorted()
SortedIds == <<"fpu_bat", "fpu_batt", "fpu_tracker">>

DefinitionRows == {[FDIRs |-> StrVal(name), id |-> StrVal(k)] : name \in Names, k \in Keys}

\* the i-th row of the monitors sheet, for the key k
MonitorRow(i, k) ==
    [id |-> StrVal(k), mons |-> StrVal("m" \o ToString(i)), thresholds |-> IntVal(i)]

\* the i-th row of the conditions sheet; its id or its condition_mons may
\* be an empty cell
ConditionIds == {StrVal(k) : k \in Keys} \cup {NaN}

ConditionRow(i, id, present) ==
    [id |-> id,
     condition_mons |-> IF present THEN StrVal("c" \o ToString(i)) ELSE NaN,
     counts |-> IntVal(i),
     response |-> StrVal("r" \o ToString(i))]

DefinitionTables == UNION {[1..n -> DefinitionRows] : n \in 0..MaxDefs}

MonitorTables ==
    UNION {{[i \in 1..n |-> MonitorRow(i, k[i])] : k \in [1..n -> Keys]} : n \in 0..MaxMons}

\* the rows a conditions sheet is made of: a row that lacks its
\* condition_mons is a row of fpu_batt
ConditionChoices ==
    {x \in ConditionIds \X BOOLEAN : x[2] \/ x[1] = StrVal("fpu_batt")}

ConditionTables ==
    UNION {{[i \in 1..n |-> ConditionRow(i, c[i][1], c[i][2])] :
                c \in [1..n -> ConditionChoices]} :
           n \in 0..MaxConds}

----------------------------------------------------------------------------
(* The selections all three combiners make.                                *)

\* the elementwise == of a column with a scalar: NaN equals nothing
Eq(a, b) == ~IsNa(a) /\ ~IsNa(b) /\ a = b

\* MonitorsFor giving the matched rows last row first
MonitorsFor_Reversed(mons, fdir_id) ==
    LET Matches(r) == Eq(r.id, fdir_id)
        found == SelectSeq(mons, Matches)
    IN  [i \in DOMAIN found |-> found[Len(found) + 1 - i]]

\* monitors[monitors['id'] == fdir_id]
MonitorsFor(mons, fdir_id) ==
    LET Matches(r) == Eq(r.id, fdir_id)
    IN  SelectSeq(mons, Matches)

\* ConditionsFor keeping the rows without condition_mons
ConditionsFor_KeepEmpty(conds, fdir_id) ==
    LET Matches(r) == Eq(r.id, fdir_id)
    IN  SelectSeq(conds, Matches)

\* ConditionsFor without the selection by id
ConditionsFor_AnyKey(conds, fdir_id) ==
    LET HasCondition(r) == ~IsNa(r.condition_mons)
    IN  SelectSeq(conds, HasCondition)

\* conditions[conditions['id'] == fdir_id].dropna(subset=['condition_mons'])
ConditionsFor(conds, fdir_id) ==
    LET Matches(r) == Eq(r.id, fdir_id)
        HasCondition(r) == ~IsNa(r.condition_mons)
    IN  SelectSeq(SelectSeq(conds, Matches), HasCondition)

RECURSIVE Concat(_)
\* the rows of a sequence of blocks, one after the other
Concat(blocks) ==
    IF blocks = <<>> THEN <<>> ELSE Head(blocks) \o Concat(Tail(blocks))

Filler == StrVal("")

----------------------------------------------------------------------------
(* combine_data.py                                                         *)

\* lines 36-42
MonitorList(mons, fdir_id) ==
    LET fdir_monitors == MonitorsFor(mons, fdir_id)
    IN  [i \in DOMAIN fdir_monitors |->
            [monitor |-> fdir_monitors[i].mons, threshold |-> fdir_monitors[i].thresholds]]

\* lines 45-52
ConditionList(conds, fdir_id) ==
    LET fdir_conditions == ConditionsFor(conds, fdir_id)
    IN  [i \in DOMAIN fdir_conditions |->
            [condition |-> fdir_conditions[i].condition_mons,
             count |-> fdir_conditions[i].counts,
             response |-> fdir_conditions[i].response]]

\* line 55: combined_data[fdir_name] = record, on a dict that keeps its
\* keys in the order of their first insertion
DictPut(data, record) ==
    IF \E j \in DOMAIN data : data[j].name = record.name
    THEN [j \in DOMAIN data |-> IF data[j].name = record.name THEN record ELSE data[j]]
    ELSE Append(data, record)

RECURSIVE CombineRows(_, _, _, _)
\* lines 29-59: the loop over the definitions rows, data being the dict
\* built so far
CombineRows(defs, mons, conds, data) ==
    IF defs = <<>> THEN data
    ELSE LET row == Head(defs)
             record == [name |-> row.FDIRs,
                        id |-> row.id,
                        monitors |-> MonitorList(mons, row.id),
                        conditions |-> ConditionList(conds, row.id)]
         IN  CombineRows(Tail(defs), mons, conds, DictPut(data, record))

\* lines 140-148
CsvRow(fdir_data, i) ==
    [FDIR |-> fdir_data.name,
     ID |-> fdir_data.id,
     Monitor |-> IF i <= Len(fdir_data.monitors)
                 THEN fdir_data.monitors[i].monitor ELSE Filler,
     Threshold |-> IF i <= Len(fdir_data.monitors)
                   THEN fdir_data.monitors[i].threshold ELSE Filler,
     Condition |-> IF i <= Len(fdir_data.conditions)
                   THEN fdir_data.conditions[i].condition ELSE Filler,
     Count |-> IF i <= Len(fdir_data.conditions)
               THEN fdir_data.conditions[i].count ELSE Filler,
     Response |-> IF i <= Len(fdir_data.conditions)
                  THEN fdir_data.conditions[i].response ELSE Filler]

\* lines 136-156: the rows of one record
CsvBlock(fdir_data) ==
    IF fdir_data.monitors # <<>> \/ fdir_data.conditions # <<>>
    THEN [i \in 1..Max(Len(fdir_data.monitors), Len(fdir_data.conditions)) |->
             CsvRow(fdir_data, i)]
    ELSE <<[FDIR |-> fdir_data.name, ID |-> fdir_data.id,
            Monitor |-> Filler, Threshold |-> Filler, Condition |-> Filler,
            Count |-> Filler, Response |-> Filler]>>

\* lines 133-156
CsvRows(data) == Concat([j \in DOMAIN data |-> CsvBlock(data[j])])

----------------------------------------------------------------------------
(* create_excel_output.py                                                  *)

\* str.upper of an FDIR name
Upper(name) ==
    CASE name = StrVal("Battery") -> StrVal("BATTERY")
      [] name = StrVal("Tracker") -> StrVal("TRACKER")
      [] OTHER -> name

\* lines 55-71: the i-th data row of an FDIR's block of Holistic_View
HolisticRow(fdir_monitors, fdir_conditions, i) ==
    <<IF i <= Len(fdir_monitors) THEN fdir_monitors[i].mons ELSE Filler,
      IF i <= Len(fdir_monitors) THEN fdir_monitors[i].thresholds ELSE Filler,
      Filler,
      IF i <= Len(fdir_conditions) THEN fdir_conditions[i].condition_mons ELSE Filler,
      IF i <= Len(fdir_conditions) THEN fdir_conditions[i].counts ELSE Filler,
      IF i <= Len(fdir_conditions) THEN fdir_conditions[i].response ELSE Filler,
      Filler>>

\* lines 37-74: the rows of Holistic_View for one definitions row
HolisticBlock(def_row, mons, conds) ==
    LET fdir_monitors == MonitorsFor(mons, def_row.id)
        fdir_conditions == ConditionsFor(conds, def_row.id)
        max_rows == Max(Len(fdir_monitors), Len(fdir_conditions))
    IN  <<  <<Upper(def_row.FDIRs), def_row.id, Filler, Filler, Filler, Filler, Filler>>,
            <<StrVal("MONITORS"), Filler, Filler, Filler, Filler, Filler, Filler>>,
            <<StrVal("Monitor Name"), StrVal("Threshold"), Filler, StrVal("CONDITIONS"),
              Filler, Filler, Filler>>,
            <<StrVal("Condition"), StrVal("Count"), StrVal("Response"), Filler,
              Filler, Filler, Filler>>  >>
        \o [i \in 1..max_rows |-> HolisticRow(fdir_monitors, fdir_conditions, i)]
        \o << <<Filler, Filler, Filler, Filler, Filler, Filler, Filler>> >>

\* a row of Combined_Flat
FlatRow(fdir_name, fdir_id, mon, cond) ==
    [FDIRs |-> fdir_name, id |-> fdir_id,
     mons |-> mon[1], thresholds |-> mon[2],
     condition_mons |-> cond[1], counts |-> cond[2], response |-> cond[3]]

NoMonitor == <<Filler, Filler>>

NoCondition == <<Filler, Filler, Filler>>

MonitorFields(mon_row) == <<mon_row.mons, mon_row.thresholds>>

\* ConditionFields leaving the response out
ConditionFields_NoResponse(cond_row) == <<cond_row.condition_mons, cond_row.counts, Filler>>

ConditionFields(cond_row) == <<cond_row.condition_mons, cond_row.counts, cond_row.response>>

\* lines 108-179: the rows of Combined_Flat for one definitions row
FlatBlock(def_row, mons, conds) ==
    LET fdir_name == def_row.FDIRs
        fdir_id == def_row.id
        fdir_monitors == MonitorsFor(mons, fdir_id)
        fdir_conditions == ConditionsFor(conds, fdir_id)
    IN  IF fdir_monitors = <<>> /\ fdir_conditions = <<>>
        THEN <<FlatRow(fdir_name, fdir_id, NoMonitor, NoCondition)>>
        ELSE IF fdir_monitors = <<>>
        THEN [i \in DOMAIN fdir_conditions |->
                 FlatRow(fdir_name, fdir_id, NoMonitor, ConditionFields(fdir_conditions[i]))]
        ELSE IF fdir_conditions = <<>>
        THEN [i \in DOMAIN fdir_monitors |->
                 FlatRow(fdir_name, fdir_id, MonitorFields(fdir_monitors[i]), NoCondition)]
        ELSE [i \in 1..Max(Len(fdir_monitors), Len(fdir_conditions)) |->
                 FlatRow(fdir_name, fdir_id,
                         IF i <= Len(fdir_monitors)
                         THEN MonitorFields(fdir_monitors[i]) ELSE NoMonitor,
                         IF i <= Len(fdir_conditions)
                         THEN ConditionFields(fdir_conditions[i]) ELSE NoCondition)]

----------------------------------------------------------------------------
(* simple_excel_combine.py                                                 *)

\* line 21: the ids of the monitors sheet and the non-empty ids of the
\* conditions sheet
AllIds(mons, conds) ==
    {mons[i].id.s : i \in DOMAIN mons}
        \cup {conds[i].id.s : i \in {j \in DOMAIN conds : ~IsNa(conds[j].id)}}

\* Sorted listing the ids in descending order
Sorted_Descending(ids) ==
    LET Member(k) == k \in ids
        found == SelectSeq(SortedIds, Member)
    IN  [i \in DOMAIN found |-> found[Len(found) + 1 - i]]

\* line 41: sorted(all_ids)
Sorted(ids) ==
    LET Member(k) == k \in ids
    IN  SelectSeq(SortedIds, Member)

\* lines 25-27: the name of the last definitions row of each id
NameOfId(defs, k) ==
    LET last == CHOOSE i \in DOMAIN defs :
                    /\ defs[i].id = StrVal(k)
                    /\ \A j \in DOMAIN defs : defs[j].id = StrVal(k) => j <= i
    IN  defs[last].FDIRs

\* lines 25-36: id_to_fdir, a function on the ids it maps
IdToFdir(defs, all_ids) ==
    LET defined == {defs[i].id.s : i \in DOMAIN defs}
        battery == "fpu_bat" \in all_ids /\ "fpu_batt" \in defined
        tracker == "fpu_tracker" \in all_ids
    IN  [k \in defined \cup (IF battery THEN {"fpu_bat"} ELSE {})
                       \cup (IF tracker THEN {"fpu_tracker"} ELSE {}) |->
            IF tracker /\ k = "fpu_tracker" THEN StrVal("Tracker")
            ELSE IF battery /\ k = "fpu_bat" THEN StrVal("Battery")
            ELSE NameOfId(defs, k)]

\* line 42: id_to_fdir.get(fdir_id, f"Unknown_{fdir_id}")
FdirName(id_to_fdir, fdir_id) ==
    IF fdir_id \in DOMAIN id_to_fdir THEN id_to_fdir[fdir_id]
    ELSE StrVal("Unknown_" \o fdir_id)

\* MaxItems without the floor of 1
MaxItems_NoFloor(fdir_monitors, fdir_conditions) ==
    Max(Len(fdir_monitors), Len(fdir_conditions))

\* line 53: max(len(fdir_monitors), len(fdir_conditions), 1)
MaxItems(fdir_monitors, fdir_conditions) ==
    Max(Max(Len(fdir_monitors), Len(fdir_conditions)), 1)

\* lines 41-65: the rows of the flat table for one id
SimpleBlock(fdir_id, id_to_fdir, mons, conds) ==
    LET fdir_name == FdirName(id_to_fdir, fdir_id)
        fdir_monitors == MonitorsFor(mons, StrVal(fdir_id))
        fdir_conditions == ConditionsFor(conds, StrVal(fdir_id))
    IN  [i \in 1..MaxItems(fdir_monitors, fdir_conditions) |->
            FlatRow(fdir_name, StrVal(fdir_id),
                    IF i <= Len(fdir_monitors)
                    THEN MonitorFields(fdir_monitors[i]) ELSE NoMonitor,
                    IF i <= Len(fdir_conditions)
                    THEN ConditionFields(fdir_conditions[i]) ELSE NoCondition)]

\* the codes of the lookup workbook
LookupCodes == {StrVal("r1"), StrVal("r2")}

\* the i-th row of the lookup workbook for a code, on the columns hdr
LookupRow(i, code, hdr) ==
    [c \in Range(hdr) |->
        CASE c = "response" -> code
          [] c = "response_text" -> StrVal("t" \o ToString(i))
          [] OTHER -> StrVal("s" \o ToString(i))]

\* the header rows of the lookup workbook: as generate_lookup_table.py
\* writes it, without recovery_steps, and without response
LookupColumns ==
    {<<"response", "response_text", "recovery_steps">>,
     <<"response", "response_text">>,
     <<"response_text", "recovery_steps">>}

\* outputs/response_lookup_table_updated.xlsx, when there is one
ResponseLookups ==
    UNION {UNION {{[kind |-> "sheet", columns |-> hdr,
                    rows |-> [i \in 1..n |-> LookupRow(i, code[i], hdr)]] :
                      code \in [1..n -> LookupCodes]} :
                  n \in 0..MaxLookup} :
           hdr \in LookupColumns}

\* The lookup workbooks a run is tried with: every one of them (and none)
\* for a data workbook of at most one definitions row and one monitors
\* row, none for a larger data workbook.
LookupChoices(defs, mons) ==
    IF Len(defs) <= 1 /\ Len(mons) <= 1
    THEN ResponseLookups \cup {Missing}
    ELSE {Missing}

\* a row of df with the two columns of the lookup
Merged(row, response_text, recovery_steps) ==
    [FDIRs |-> row.FDIRs, id |-> row.id, mons |-> row.mons,
     thresholds |-> row.thresholds, condition_mons |-> row.condition_mons,
     counts |-> row.counts, response |-> row.response,
     response_text |-> response_text, recovery_steps |-> recovery_steps]

\* line 76: df.merge(response_lookup, on='response', how='left') and
\* line 80, for one row of df: a row for every lookup row of its response
\* in the order of the lookup, a row of NaN when there is none
LeftJoinRow(row, lookup_rows) ==
    LET SameResponse(r) == r["response"] = row.response
        hits == SelectSeq(lookup_rows, SameResponse)
    IN  IF hits = <<>>
        THEN <<Merged(row, NaN, NaN)>>
        ELSE [h \in DOMAIN hits |->
                 Merged(row, hits[h]["response_text"], hits[h]["recovery_steps"])]

\* MergeLookup as an inner join
MergeLookup_Inner(df, lookup_file) ==
    IF \/ lookup_file = Missing
       \/ df = <<>>
       \/ ~({"response", "response_text", "recovery_steps"} \subseteq
                Range(lookup_file.columns))
    THEN df
    ELSE LET Hit(row) == \E i \in DOMAIN lookup_file.rows :
                             lookup_file.rows[i]["response"] = row.response
             kept == SelectSeq(df, Hit)
         IN  Concat([p \in DOMAIN kept |-> LeftJoinRow(kept[p], lookup_file.rows)])

\* lines 70-88.  read_excel raises for an absent workbook, merge raises
\* KeyError for a lookup without the column response and for a df without
\* it (the DataFrame of no rows has no columns), and the selection of line
\* 80 raises KeyError for a lookup without response_text or
\* recovery_steps: the handler of line 85 then takes df as it is.
MergeLookup(df, lookup_file) ==
    IF \/ lookup_file = Missing
       \/ df = <<>>
       \/ ~({"response", "response_text", "recovery_steps"} \subseteq
                Range(lookup_file.columns))
    THEN df
    ELSE Concat([p \in DOMAIN df |-> LeftJoinRow(df[p], lookup_file.rows)])

\* lines 20-65
SimpleRows(defs, mons, conds) ==
    LET all_ids == AllIds(mons, conds)
        id_to_fdir == IdToFdir(defs, all_ids)
        ids == Sorted(all_ids)
    IN  Concat([j \in DOMAIN ids |-> SimpleBlock(ids[j], id_to_fdir, mons, conds)])

----------------------------------------------------------------------------
(* The three combiners as programs: each reads inputs/data.xlsx and runs   *)
(* once.                                                                   *)

InitCombine ==
    /\ program = "combiners"
    /\ pc = "start"
    /\ data_exists \in BOOLEAN
    /\ data_corrupt \in IF data_exists THEN BOOLEAN ELSE {FALSE}
    /\ definitions \in IF Readable THEN DefinitionTables ELSE {<<>>}
    /\ monitors \in IF Readable THEN MonitorTables ELSE {<<>>}
    /\ conditions \in IF Readable THEN ConditionTables ELSE {<<>>}
    /\ combined_data = <<>>
    /\ csv_rows = <<>>
    /\ holistic_data = <<>>
    /\ flat_data = <<>>
    /\ combined_rows = <<>>
    /\ file1 = Missing
    /\ file2 = Missing
    /\ df1 = EmptyFrame
    /\ df2 = EmptyFrame
    /\ differences = EmptyFrame
    /\ stats = NoStats
    /\ workbook = NoWorkbook
    /\ xl_file = "None"
    /\ sheets_data = <<>>
    /\ IdleRun
    /\ IdleOutput

\* pd.read_excel('inputs/data.xlsx', ...) of each combiner when the file is
\* absent: FileNotFoundError, whose message names the file, ends the run
\* (as a traceback in combine_data.py and simple_excel_combine.py, caught
\* and printed by main in create_excel_output.py).
ReadExcelNotFound ==
    /\ program = "combiners"
    /\ pc = "start"
    /\ ~data_exists
    /\ reported' = <<"inputs/data.xlsx">>
    /\ pc' = "not_found"
    /\ UNCHANGED <<program, compareVars, combineVars, readerVars, returned, outputs, ioVars>>

\* pd.read_excel('inputs/data.xlsx', ...) raises on a file that is no
\* workbook.  combine_data.py (line 17) and simple_excel_combine.py (line 14)
\* have no handler: the run ends with the traceback of the interpreter.
ReadExcelRaises ==
    /\ program = "combiners"
    /\ pc = "start"
    /\ data_exists /\ data_corrupt
    /\ pc' = "traceback"
    /\ UNCHANGED <<program, compareVars, combineVars, readerVars, runVars, ioVars>>

\* create_excel_output.py, main (lines 251-263): the exception of
\* create_formatted_excel is caught, the error and its traceback are
\* printed, and main returns
MainCatchesError ==
    /\ program = "combiners"
    /\ pc = "start"
    /\ data_exists /\ data_corrupt
    /\ pc' = "error_printed"
    /\ UNCHANGED <<program, compareVars, combineVars, readerVars, runVars, ioVars>>

\* combine_data.py, combine_excel_data (lines 12-64)
CombineExcelData ==
    /\ program = "combiners"
    /\ pc = "start"
    /\ Readable
    /\ combined_data' = CombineRows(definitions, monitors, conditions, <<>>)
    /\ pc' = "combined"
    /\ UNCHANGED <<program, definitions, monitors, conditions, csv_rows, holistic_data,
                   flat_data, combined_rows, compareVars, readerVars, runVars, ioVars>>

\* combine_data.py, save_combined_data (lines 94-160)
SaveCombinedData ==
    /\ program = "combiners"
    /\ pc = "combined"
    /\ csv_rows' = CsvRows(combined_data)
    /\ pc' = "saved"
    /\ UNCHANGED <<program, definitions, monitors, conditions, combined_data,
                   holistic_data, flat_data, combined_rows, compareVars, readerVars,
                   runVars, ioVars>>

\* create_excel_output.py, create_formatted_excel (lines 14-249)
CreateFormattedExcel ==
    /\ program = "combiners"
    /\ pc = "start"
    /\ Readable
    /\ holistic_data' =
           Concat([j \in DOMAIN definitions |->
                      HolisticBlock(definitions[j], monitors, conditions)])
    /\ flat_data' =
           Concat([j \in DOMAIN definitions |->
                      FlatBlock(definitions[j], monitors, conditions)])
    /\ pc' = "formatted"
    /\ UNCHANGED <<program, definitions, monitors, conditions, combined_data, csv_rows,
                   combined_rows, compareVars, readerVars, runVars, ioVars>>

\* simple_excel_combine.py, create_simple_combined_excel (lines 8-158):
\* the flat table, its merge with the response lookup, and the workbook
CreateSimpleCombinedExcel ==
    /\ program = "combiners"
    /\ pc = "start"
    /\ Readable
    /\ combined_rows' = SimpleRows(definitions, monitors, conditions)
    /\ \E lookup_file \in LookupChoices(definitions, monitors) :
         /\ response_lookup' = lookup_file
         /\ df_merged' = MergeLookup(SimpleRows(definitions, monitors, conditions),
                                     lookup_file)
    /\ \E is_locked \in LockChoices(Len(definitions) <= 1 /\ Len(monitors) <= 1) :
         /\ locked' = is_locked
         /\ output_file' = OutputPath("outputs/combined_flat_with_responses", is_locked)
         /\ outputs' = {OutputPath("outputs/combined_flat_with_responses", is_locked)}
    /\ pc' = "flattened"
    /\ UNCHANGED <<program, definitions, monitors, conditions, combined_data, csv_rows,
                   holistic_data, flat_data, compareVars, readerVars, returned, reported,
                   data_corrupt, clean_lookup_dict>>

NextCombine ==
    \/ ReadExcelNotFound
    \/ ReadExcelRaises
    \/ MainCatchesError
    \/ CombineExcelData
    \/ SaveCombinedData
    \/ CreateFormattedExcel
    \/ CreateSimpleCombinedExcel

SpecCombine == InitCombine /\ [][NextCombine]_vars

\* simple_excel_combine.py alone
NextSimple ==
    \/ ReadExcelNotFound
    \/ ReadExcelRaises
    \/ CreateSimpleCombinedExcel

SpecSimple == InitCombine /\ [][NextSimple]_vars

----------------------------------------------------------------------------
(* excel_reader.py: an ExcelMultiSheetReader on inputs/data.xlsx, whose    *)
(* operations are called in any order.                                     *)

FilePath == "inputs/data.xlsx"

\* xl_file.sheet_names
SheetNames == {"definitions", "monitors", "conditions"}

\* xl_file.sheet_names in the order of the workbook
SheetOrder == <<"definitions", "monitors", "conditions">>

\* the sheet names the caller asks for: those of the workbook, and one
\* more
AskedSheets == SheetNames \cup {"summary"}

\* the output_file the caller gives export_to_json (line 329)
JsonFile == "outputs/data_xlsx_export.json"

\* the output_file the caller gives export_sheet_to_csv
CsvFile == "outputs/sheet.csv"

\* pd.read_excel(self.xl_file, sheet_name=sheet_name)
SheetFrame(sheet_name) ==
    CASE sheet_name = "definitions" -> definitions
      [] sheet_name = "monitors" -> monitors
      [] OTHER -> conditions

\* the ids the caller asks for
TargetIds == Keys

\* The workbook has at most one definitions row, at most one monitors row
\* and at most MaxConds rows in all.
InitReader ==
    /\ program = "excel_reader"
    /\ pc = "start"
    /\ data_exists \in BOOLEAN
    /\ data_corrupt \in IF data_exists THEN BOOLEAN ELSE {FALSE}
    /\ definitions \in IF Readable THEN {t \in DefinitionTables : Len(t) <= 1} ELSE {<<>>}
    /\ monitors \in IF Readable THEN {t \in MonitorTables : Len(t) <= 1} ELSE {<<>>}
    /\ conditions \in IF Readable THEN ConditionTables ELSE {<<>>}
    /\ Len(definitions) + Len(monitors) + Len(conditions) <= MaxConds
    /\ xl_file = "None"
    /\ sheets_data = <<>>
    /\ combined_data = <<>>
    /\ csv_rows = <<>>
    /\ holistic_data = <<>>
    /\ flat_data = <<>>
    /\ combined_rows = <<>>
    /\ file1 = Missing
    /\ file2 = Missing
    /\ df1 = EmptyFrame
    /\ df2 = EmptyFrame
    /\ differences = EmptyFrame
    /\ stats = NoStats
    /\ workbook = NoWorkbook
    /\ IdleRun
    /\ IdleOutput

\* load_file, lines 32-46
LoadFile ==
    /\ program = "excel_reader"
    /\ IF ~data_exists
       THEN /\ reported' = <<FilePath>>
            /\ returned' = Returned(<<"load_file">>, "False", {}, <<>>)
            /\ UNCHANGED xl_file
       ELSE IF data_corrupt
       THEN /\ reported' = <<>>
            /\ returned' = Returned(<<"load_file">>, "False", {}, <<>>)
            /\ UNCHANGED xl_file
       ELSE /\ xl_file' = "ExcelFile"
            /\ reported' = <<>>
            /\ returned' = Returned(<<"load_file">>, "True", {}, <<>>)
    /\ UNCHANGED <<program, pc, data_exists, sheets_data, outputs, compareVars,
                   combineVars, ioVars>>

\* lines 55-58 after the first n sheets were read and stored
Stored(data, n) ==
    LET names == DOMAIN data \cup {SheetOrder[k] : k \in 1..n}
    IN  IF names = {} THEN <<>> ELSE [sheet_name \in names |-> SheetFrame(sheet_name)]

\* read_all_sheets, lines 48-66.  pd.read_excel may raise on a sheet that
\* cannot be parsed: the sheets read before it stay in sheets_data, and
\* the handler of line 64 returns {}.
ReadAllSheets ==
    /\ program = "excel_reader"
    /\ IF xl_file = "None"
       THEN /\ returned' = Returned(<<"read_all_sheets">>, "dict", {}, <<>>)
            /\ UNCHANGED sheets_data
       ELSE \E n \in 0..Len(SheetOrder) :
                /\ sheets_data' = Stored(sheets_data, n)
                /\ returned' = IF n = Len(SheetOrder)
                               THEN Returned(<<"read_all_sheets">>, "dict", SheetNames, <<>>)
                               ELSE Returned(<<"read_all_sheets">>, "dict", {}, <<>>)
    /\ reported' = <<>>
    /\ UNCHANGED <<program, pc, data_exists, xl_file, outputs, compareVars, combineVars, ioVars>>

\* read_specific_sheet, lines 68-88: None without a loaded file, for a
\* name that is not in sheet_names, and when pd.read_excel raises
ReadSpecificSheet(sheet_name) ==
    /\ program = "excel_reader"
    /\ IF xl_file = "None"
       THEN /\ returned' = Returned(<<"read_specific_sheet", sheet_name>>, "None", {}, <<>>)
            /\ reported' = <<>>
       ELSE IF sheet_name \notin SheetNames
       THEN /\ returned' = Returned(<<"read_specific_sheet", sheet_name>>, "None", {}, <<>>)
            /\ reported' = <<sheet_name>>
       ELSE /\ \/ returned' = Returned(<<"read_specific_sheet", sheet_name>>, "DataFrame",
                                        {}, SheetFrame(sheet_name))
               \/ returned' = Returned(<<"read_specific_sheet", sheet_name>>, "None", {}, <<>>)
            /\ reported' = <<>>
    /\ UNCHANGED <<program, pc, readerVars, outputs, compareVars, combineVars, ioVars>>

RECURSIVE DefinitionsMapping(_)
\* line 122: dict(zip(df['FDIRs'], df['id'])), as the sequence of its
\* items
DefinitionsMapping(rows) ==
    IF rows = <<>> THEN <<>>
    ELSE LET mapping == DefinitionsMapping(SubSeq(rows, 1, Len(rows) - 1))
             last == rows[Len(rows)]
         IN  IF \E j \in DOMAIN mapping : mapping[j].FDIRs = last.FDIRs
             THEN [j \in DOMAIN mapping |->
                      IF mapping[j].FDIRs = last.FDIRs THEN last ELSE mapping[j]]
             ELSE Append(mapping, last)

\* get_definitions_mapping, lines 114-129
GetDefinitionsMapping ==
    /\ program = "excel_reader"
    /\ returned' = IF "definitions" \notin DOMAIN sheets_data
                   THEN Returned(<<"get_definitions_mapping">>, "None", {}, <<>>)
                   ELSE LET mapping == DefinitionsMapping(sheets_data["definitions"])
                        IN  Returned(<<"get_definitions_mapping">>, "dict",
                                     {mapping[j].FDIRs.s : j \in DOMAIN mapping}, mapping)
    /\ reported' = <<>>
    /\ UNCHANGED <<program, pc, readerVars, outputs, compareVars, combineVars, ioVars>>

\* get_monitors_for_id, lines 131-144
GetMonitorsForId(target_id) ==
    /\ program = "excel_reader"
    /\ returned' = IF "monitors" \notin DOMAIN sheets_data
                   THEN Returned(<<"get_monitors_for_id", target_id>>, "None", {}, <<>>)
                   ELSE Returned(<<"get_monitors_for_id", target_id>>, "DataFrame", {},
                                 MonitorsFor(sheets_data["monitors"], StrVal(target_id)))
    /\ reported' = <<>>
    /\ UNCHANGED <<program, pc, readerVars, outputs, compareVars, combineVars, ioVars>>

\* get_conditions_for_id, lines 146-160
GetConditionsForId(target_id) ==
    /\ program = "excel_reader"
    /\ returned' = IF "conditions" \notin DOMAIN sheets_data
                   THEN Returned(<<"get_conditions_for_id", target_id>>, "None", {}, <<>>)
                   ELSE Returned(<<"get_conditions_for_id", target_id>>, "DataFrame", {},
                                 ConditionsFor(sheets_data["conditions"], StrVal(target_id)))
    /\ reported' = <<>>
    /\ UNCHANGED <<program, pc, readerVars, outputs, compareVars, combineVars, ioVars>>

\* ExportToJson writing whatever sheets_data holds
ExportToJson_Unguarded ==
    /\ program = "excel_reader"
    /\ returned' = Returned(<<"export_to_json">>, "True", {}, <<>>)
    /\ outputs' = outputs \cup {JsonFile}
    /\ reported' = <<>>
    /\ UNCHANGED <<program, pc, readerVars, compareVars, combineVars, ioVars>>

\* export_to_json, lines 162-182
ExportToJson ==
    /\ program = "excel_reader"
    /\ IF sheets_data = <<>>
       THEN /\ returned' = Returned(<<"export_to_json">>, "False", {}, <<>>)
            /\ UNCHANGED outputs
       ELSE /\ returned' = Returned(<<"export_to_json">>, "True", {}, <<>>)
            /\ outputs' = outputs \cup {JsonFile}
    /\ reported' = <<>>
    /\ UNCHANGED <<program, pc, readerVars, compareVars, combineVars, ioVars>>

\* export_sheet_to_csv, lines 184-197
ExportSheetToCsv(sheet_name) ==
    /\ program = "excel_reader"
    /\ IF sheet_name \notin DOMAIN sheets_data
       THEN /\ returned' = Returned(<<"export_sheet_to_csv", sheet_name>>, "False", {}, <<>>)
            /\ UNCHANGED outputs
       ELSE /\ returned' = Returned(<<"export_sheet_to_csv", sheet_name>>, "True", {}, <<>>)
            /\ outputs' = outputs \cup {CsvFile}
    /\ reported' = <<>>
    /\ UNCHANGED <<program, pc, readerVars, compareVars, combineVars, ioVars>>

NextReader ==
    \/ LoadFile
    \/ ReadAllSheets
    \/ \E sheet_name \in AskedSheets : ReadSpecificSheet(sheet_name)
    \/ GetDefinitionsMapping
    \/ ExportToJson
    \/ \E sheet_name \in AskedSheets : ExportSheetToCsv(sheet_name)
    \/ \E target_id \in TargetIds : GetMonitorsForId(target_id)
    \/ \E target_id \in TargetIds : GetConditionsForId(target_id)

SpecReader == InitReader /\ [][NextReader]_vars

----------------------------------------------------------------------------
(* generate_lookup_table.py                                                *)

\* line 26
InputFile == "inputs/response_text.xlsx"

\* line 51
ResponseCols == <<"response", "response_text", "recovery_text">>

\* the header rows of inputs/response_text.xlsx: any of the three columns
\* may be absent
LookupHeaders ==
    {LET Kept(col) == col \in S IN SelectSeq(ResponseCols, Kept) :
        S \in SUBSET Range(ResponseCols)}

\* the cells of the column response: a response code or nothing
ResponseCodes == {Empty, Text("r1"), Text("r2")}

\* The cells of the columns response_text and recovery_text: a blank, a
\* line, a line between blanks and line breaks, two lines with a blank
\* line between them, and two lines with a backslash and an n between
\* them.
TextCells ==
    {Empty, Text(" "), Text("a"), Text(" a\n "), Text("b\n\n a"), Text("a\\nb")}

\* the texts of a sheet of several rows
FewTextCells == {Empty, Text("a")}

\* the cells of column col in a sheet of n rows
LookupCells(col, n) ==
    IF col = "response" THEN ResponseCodes
    ELSE IF n <= 1 THEN TextCells
    ELSE FewTextCells

\* the rows of a sheet of n rows under the header row hdr
LookupRows(hdr, n) ==
    {r \in [Range(hdr) -> ResponseCodes \cup TextCells] :
        \A c \in Range(hdr) : r[c] \in LookupCells(c, n)}

\* MissingCols finding every column present
MissingCols_None(columns) == <<>>

\* line 54: the required columns the sheet lacks
MissingCols(columns) ==
    LET Lacking(col) == col \notin Range(columns)
    IN  SelectSeq(ResponseCols, Lacking)

\* line 47: df.dropna(subset=['response'])
DropNa(rows) ==
    LET HasResponse(row) == ~IsNa(row.response)
    IN  SelectSeq(rows, HasResponse)

RECURSIVE DropDuplicates(_)
\* line 58: drop_duplicates() keeps the first of the rows that are equal in
\* every column, NaN being equal to NaN
DropDuplicates(rows) ==
    IF rows = <<>> THEN <<>>
    ELSE LET kept == DropDuplicates(SubSeq(rows, 1, Len(rows) - 1))
             last == rows[Len(rows)]
         IN  IF last \in Range(kept) THEN kept ELSE Append(kept, last)

\* lines 47-58: lookup_df
LookupDf(df) ==
    DropDuplicates(DropNa([i \in DOMAIN df.rows |->
                              [c \in Range(ResponseCols) |-> df.rows[i][c]]]))

\* the truth value Python gives a cell that is not NaN
Truthy(v) == IF v.t = "str" THEN v.s # "" ELSE v.n # 0

\* the characters of a str of the model
Chars(s) ==
    CASE s = " " -> <<" ">>
      [] s = "a" -> <<"a">>
      [] s = "b" -> <<"b">>
      [] s = " a\n " -> <<" ", "a", "\n", " ">>
      [] s = "b\n\n a" -> <<"b", "\n", "\n", " ", "a">>
      [] s = "a\\nb" -> <<"a", "\\", "n", "b">>
      [] s = "r1" -> <<"r", "1">>
      [] s = "r2" -> <<"r", "2">>
      [] OTHER -> <<>>

RECURSIVE Join(_)
\* the str of a sequence of characters
Join(chars) == IF chars = <<>> THEN "" ELSE chars[1] \o Join(Tail(chars))

RECURSIVE Replace(_)
\* str.replace('\\n', '\n'): a backslash followed by n becomes a line break
Replace(text) ==
    IF text = <<>> THEN <<>>
    ELSE IF Len(text) >= 2 /\ text[1] = "\\" /\ text[2] = "n"
    THEN <<"\n">> \o Replace(SubSeq(text, 3, Len(text)))
    ELSE <<text[1]>> \o Replace(Tail(text))

RECURSIVE Split(_)
\* str.split('\n'): the pieces between the line breaks, the empty ones too
Split(text) ==
    IF \A i \in DOMAIN text : text[i] # "\n" THEN <<text>>
    ELSE LET k == CHOOSE i \in DOMAIN text :
                      text[i] = "\n" /\ \A j \in 1..(i - 1) : text[j] # "\n"
         IN  <<SubSeq(text, 1, k - 1)>> \o Split(SubSeq(text, k + 1, Len(text)))

Whitespace == {" ", "\n"}

RECURSIVE Strip(_)
\* str.strip()
Strip(line) ==
    IF line = <<>> THEN <<>>
    ELSE IF line[1] \in Whitespace THEN Strip(Tail(line))
    ELSE IF line[Len(line)] \in Whitespace THEN Strip(SubSeq(line, 1, Len(line) - 1))
    ELSE line

\* lines 70-71 and 82-83: the stripped lines of str(cell) that are not blank
Lines(v) ==
    LET pieces == Split(Replace(Chars(Str(v))))
        stripped == [i \in DOMAIN pieces |-> Join(Strip(pieces[i]))]
        NotBlank(line) == line # ""
    IN  SelectSeq(stripped, NotBlank)

\* a dict without keys
NoFields == [k \in {} |-> <<>>]

\* ResponseTextField storing the lines of a text of one line as a list
ResponseTextField_AlwaysLines(cell) ==
    IF ~IsNa(cell) /\ Truthy(cell) /\ Lines(cell) # <<>>
    THEN "response_text_lines" :> Lines(cell)
    ELSE NoFields

\* lines 68-78: what the response text adds to the entry
ResponseTextField(cell) ==
    IF ~IsNa(cell) /\ Truthy(cell) /\ Lines(cell) # <<>>
    THEN IF Len(Lines(cell)) = 1
         THEN "response_text" :> Lines(cell)[1]
         ELSE "response_text_lines" :> Lines(cell)
    ELSE NoFields

\* lines 80-86: what the recovery text adds to the entry
RecoveryStepsField(cell) ==
    IF ~IsNa(cell) /\ Truthy(cell) /\ Lines(cell) # <<>>
    THEN "recovery_steps" :> Lines(cell)
    ELSE NoFields

\* lines 65-86: response_entry
ResponseEntry(row) ==
    ResponseTextField(row.response_text) @@ RecoveryStepsField(row.recovery_text)

\* LookupPut keeping the entry a key has
LookupPut_KeepFirst(dict, response_key, response_entry) ==
    IF \E j \in DOMAIN dict : dict[j].key = response_key
    THEN dict
    ELSE Append(dict, [key |-> response_key, entry |-> response_entry])

\* line 88: clean_lookup_dict[response_key] = response_entry, on a dict
\* that keeps its keys in the order of their first insertion
LookupPut(dict, response_key, response_entry) ==
    IF \E j \in DOMAIN dict : dict[j].key = response_key
    THEN [j \in DOMAIN dict |->
             IF dict[j].key = response_key
             THEN [key |-> response_key, entry |-> response_entry]
             ELSE dict[j]]
    ELSE Append(dict, [key |-> response_key, entry |-> response_entry])

RECURSIVE CleanLookupDict(_)
\* lines 62-88: the loop over the rows of lookup_df
CleanLookupDict(lookup_rows) ==
    IF lookup_rows = <<>> THEN <<>>
    ELSE LET row == lookup_rows[Len(lookup_rows)]
         IN  LookupPut(CleanLookupDict(SubSeq(lookup_rows, 1, Len(lookup_rows) - 1)),
                       row.response, ResponseEntry(row))

\* lines 118, 184, 216, 225, 234: the files a run writes
OutputFiles ==
    {"outputs/response_lookup_table_updated.xlsx",
     "outputs/response_lookup_table_updated.csv",
     "outputs/response_lookup_clean.json",
     "outputs/response_lookup_detailed.json",
     "outputs/response_lookup_fully_clean.json"}

InitLookup ==
    /\ program = "generate_lookup_table"
    /\ pc = "start"
    /\ \/ file1 \in {Missing, Corrupt}
       \/ \E hdr \in LookupHeaders :
             \E n \in 0..(IF hdr = <<>> THEN 0 ELSE MaxLookupRows) :
                \E rs \in [1..n -> LookupRows(hdr, n)] :
                   file1 = [kind |-> "sheet", columns |-> hdr, rows |-> rs]
    /\ file2 = Missing
    /\ df1 = EmptyFrame
    /\ df2 = EmptyFrame
    /\ differences = EmptyFrame
    /\ stats = NoStats
    /\ workbook = NoWorkbook
    /\ definitions = <<>>
    /\ monitors = <<>>
    /\ conditions = <<>>
    /\ combined_data = <<>>
    /\ csv_rows = <<>>
    /\ holistic_data = <<>>
    /\ flat_data = <<>>
    /\ combined_rows = <<>>
    /\ IdleReader
    /\ IdleRun
    /\ IdleIo

\* create_clean_lookup_table, lines 21-273.  On a file that is no workbook
\* pd.read_excel raises, and without the column response the dropna of
\* line 47 raises KeyError(['response']) before the check of line 54 is
\* reached; the handler of line 269 logs the exception and returns False.
CreateCleanLookupTable ==
    /\ program = "generate_lookup_table"
    /\ pc = "start"
    /\ IF file1 = Missing
       THEN /\ reported' = <<InputFile>>
            /\ returned' = Returned(<<"create_clean_lookup_table">>, "False", {}, <<>>)
            /\ UNCHANGED <<outputs, clean_lookup_dict>>
       ELSE IF file1 = Corrupt
       THEN /\ reported' = <<>>
            /\ returned' = Returned(<<"create_clean_lookup_table">>, "False", {}, <<>>)
            /\ UNCHANGED <<outputs, clean_lookup_dict>>
       ELSE IF "response" \notin Range(file1.columns)
       THEN /\ reported' = <<"response">>
            /\ returned' = Returned(<<"create_clean_lookup_table">>, "False", {}, <<>>)
            /\ UNCHANGED <<outputs, clean_lookup_dict>>
       ELSE IF MissingCols(file1.columns) # <<>>
       THEN /\ reported' = MissingCols(file1.columns)
            /\ returned' = Returned(<<"create_clean_lookup_table">>, "False", {}, <<>>)
            /\ UNCHANGED <<outputs, clean_lookup_dict>>
       ELSE /\ reported' = <<>>
            /\ returned' = Returned(<<"create_clean_lookup_table">>, "True", {}, <<>>)
            /\ clean_lookup_dict' = CleanLookupDict(LookupDf(ReadExcel(file1)))
            /\ outputs' = OutputFiles
    /\ pc' = "returned"
    /\ UNCHANGED <<program, compareVars, combineVars, readerVars, data_corrupt, locked,
                   response_lookup, output_file, df_merged>>

\* main, lines 276-285
LookupMain ==
    /\ program = "generate_lookup_table"
    /\ pc = "returned"
    /\ pc' = IF returned.kind = "True" THEN "exit_0" ELSE "exit_1"
    /\ UNCHANGED <<program, compareVars, combineVars, readerVars, runVars, ioVars>>

NextLookup ==
    \/ CreateCleanLookupTable
    \/ LookupMain

SpecLookup == InitLookup /\ [][NextLookup]_vars

----------------------------------------------------------------------------
(* The scripts that read inputs/data.xlsx.                                 *)

InitData == InitCombine \/ InitReader

NextData == NextCombine \/ NextReader

SpecData == InitData /\ [][NextData]_vars

----------------------------------------------------------------------------
(* All the scripts.                                                        *)

Init == InitCompare \/ InitCombine \/ InitReader \/ InitLookup

Next == NextCompare \/ NextCombine \/ NextReader \/ NextLookup

Spec == Init /\ [][Next]_vars

\* The exit status of the run: 1 when the interpreter ended it with the
\* traceback of an exception that no handler caught, or by exit(1) (line
\* 285 of generate_lookup_table.py); 0 when main returned; -1 as long as the
\* script runs, and for the combiner that did not find inputs/data.xlsx,
\* whose status is that of the script.
ExitStatus ==
    CASE program = "excel_compare" /\ pc \in {"not_found", "load_failed", "written"} -> 0
      [] program = "excel_compare" /\ pc = "crashed" -> 1
      [] program = "combiners" /\ pc \in {"saved", "formatted", "flattened"} -> 0
      [] program = "combiners" /\ pc = "error_printed" -> 0
      [] program = "combiners" /\ pc = "traceback" -> 1
      [] program = "generate_lookup_table" /\ pc = "exit_0" -> 0
      [] program = "generate_lookup_table" /\ pc = "exit_1" -> 1
      [] OTHER -> -1

----------------------------------------------------------------------------
(* Properties of excel_compare.py (SpecCompare).                           *)

\* compare_excel_files has returned its three frames
Compared == pc \in {"compared", "written"}

\* the two tables as read, before alignment
Table1 == ReadExcel(file1)

Table2 == ReadExcel(file2)

Cells(df) == (DOMAIN df.rows) \X Range(df.columns)

At(df, rc) == df.rows[rc[1]][rc[2]]

PaddedAfter(df, table, other) ==
    /\ Len(df.rows) = Max(Len(table.rows), Len(other.rows))
    /\ \A i \in DOMAIN table.rows : \A c \in Range(table.columns) :
           df.rows[i][c] = table.rows[i][c]
    /\ \A i \in DOMAIN df.rows : i > Len(table.rows) =>
           \A c \in Range(df.columns) : df.rows[i][c] = NaN

C2_RowAlignment ==
    Compared =>
        LET table1 == Table1
            table2 == Table2
        IN  /\ PaddedAfter(df1, table1, table2)
            /\ PaddedAfter(df2, table2, table1)
            /\ \A rc \in Cells(differences) :
                   /\ rc[1] > Len(table1.rows) =>
                          (At(differences, rc) = "DIFFERENT" <=> At(df2, rc).t # "nan")
                   /\ rc[1] > Len(table2.rows) =>
                          (At(differences, rc) = "DIFFERENT" <=> At(df1, rc).t # "nan")

C2_Witness ==
    /\ Compared
    /\ Table1.columns = <<"id", "val">>
    /\ Table2.columns = <<"id", "val">>
    /\ Len(Table1.rows) = 1
    /\ Len(Table2.rows) = 2
    /\ Table2.rows[1] = Table1.rows[1]
    /\ Len(df1.rows) = 2
    /\ differences.rows[2]["val"] = "DIFFERENT"

\* C3: the columns of both aligned tables are exactly the union of the
\* columns of the two inputs; a column of one input only is empty in every
\* row of the other table.
AddedColumnsEmpty(df, table) ==
    \A rc \in Cells(df) : rc[2] \notin Range(table.columns) => At(df, rc) = NaN

C3_ColumnAlignment ==
    Compared =>
        LET table1 == Table1
            table2 == Table2
        IN  /\ Range(df1.columns) = Range(table1.columns) \cup Range(table2.columns)
            /\ Range(df2.columns) = Range(table1.columns) \cup Range(table2.columns)
            /\ Len(df1.columns) = Cardinality(Range(df1.columns))
            /\ Len(df2.columns) = Cardinality(Range(df2.columns))
            /\ \A i \in DOMAIN df1.rows : DOMAIN df1.rows[i] = Range(df1.columns)
            /\ \A i \in DOMAIN df2.rows : DOMAIN df2.rows[i] = Range(df2.columns)
            /\ AddedColumnsEmpty(df1, table1)
            /\ AddedColumnsEmpty(df2, table2)

C3_Witness ==
    /\ Compared
    /\ Table1.columns = <<"id">>
    /\ Table2.columns = <<"val">>
    /\ Len(Table1.rows) = 2
    /\ Len(Table2.rows) = 1
    /\ Range(df1.columns) = {"id", "val"}
    /\ \E rc \in Cells(df2) : At(df2, rc) # NaN

\* C4: the difference matrix has one cell for every (row, column) pair of
\* the column-union/row-max alignment and no other, the shape and column
\* order of both aligned tables, and SAME or DIFFERENT in every cell.
C4_MatrixShape ==
    Compared =>
        /\ differences.columns = df1.columns
        /\ differences.columns = df2.columns
        /\ Range(differences.columns) = Range(Table1.columns) \cup Range(Table2.columns)
        /\ Len(differences.rows) = Max(Len(Table1.rows), Len(Table2.rows))
        /\ Len(differences.rows) = Len(df1.rows)
        /\ Len(differences.rows) = Len(df2.rows)
        /\ \A i \in DOMAIN differences.rows :
               /\ DOMAIN differences.rows[i] = Range(differences.columns)
               /\ \A c \in Range(differences.columns) :
                      differences.rows[i][c] \in {"SAME", "DIFFERENT"}

C4_Witness ==
    /\ Compared
    /\ Len(Table1.rows) # Len(Table2.rows)
    /\ Range(Table1.columns) # Range(Table2.columns)
    /\ Size(differences) = 4
    /\ \E rc \in Cells(differences) : At(df1, rc) = NaN /\ At(df2, rc) = NaN

\* C5: comparing a table with itself gives a matrix of SAME cells only and
\* a difference percentage of 0, also for a table with no rows.
C5_SelfCompare ==
    (pc \in {"compared", "written", "crashed"} /\ file1 = file2) =>
        /\ \A rc \in Cells(differences) : At(differences, rc) = "SAME"
        /\ stats.percentage.kind = "number"
        /\ stats.percentage.num = 0

\* C6: the classification is symmetric: compare(A, B) and compare(B, A)
\* hold the same value at every (row, column name).
Swapped ==
    LET al == Aligned(Table2, Table1, df1.columns)
    IN  DifferenceMatrix(al.df1, al.df2)

C6_Symmetric ==
    Compared =>
        LET swapped == Swapped
        IN  /\ Len(swapped.rows) = Len(differences.rows)
            /\ Range(swapped.columns) = Range(differences.columns)
            /\ \A rc \in Cells(differences) : At(differences, rc) = At(swapped, rc)

C6_Witness ==
    /\ Compared
    /\ file1 # file2
    /\ Range(Table1.columns) # Range(Table2.columns)
    /\ \E rc \in Cells(df1) : At(df1, rc) = NaN /\ At(df2, rc) # NaN
    /\ \E rc \in Cells(df1) : At(df1, rc) # NaN /\ At(df2, rc) = NaN
    /\ \E rc \in Cells(df1) :
         At(df1, rc) # NaN /\ At(df2, rc) # NaN /\ At(differences, rc) = "DIFFERENT"

\* C7: with a total of 0 cells the reported difference percentage is 0: no
\* arithmetic fault and no undefined number.
C7_GuardedPercentage ==
    (pc \in {"compared", "written", "crashed"} /\ Size(differences) = 0) =>
        /\ pc # "crashed"
        /\ stats.percentage.kind = "number"
        /\ stats.percentage.num = 0

\* C8: total = aligned rows times aligned columns, different = the number
\* of DIFFERENT cells, same = total - different = the number of SAME cells.
C8_Counts ==
    Compared =>
        /\ stats.total_cells = Len(df1.rows) * Len(df1.columns)
        /\ stats.different_cells =
               Cardinality({rc \in Cells(differences) : At(differences, rc) = "DIFFERENT"})
        /\ stats.same_cells = stats.total_cells - stats.different_cells
        /\ stats.same_cells + stats.different_cells = stats.total_cells
        /\ stats.same_cells =
               Cardinality({rc \in Cells(differences) : At(differences, rc) = "SAME"})

C8_Witness ==
    /\ Compared
    /\ stats.total_cells = 4
    /\ stats.different_cells = 2
    /\ \E i \in DOMAIN differences.rows : \A c \in Range(differences.columns) :
           differences.rows[i][c] = "DIFFERENT"

\* C9: the differences summary has one entry for every DIFFERENT cell and
\* none for a SAME cell, in row-major order and within a row in the column
\* order of the aligned tables.  SummaryEntries(Form) states it with Form
\* giving what an entry holds for a value of the aligned tables.
ColumnPosition(c) == CHOOSE k \in DOMAIN df1.columns : df1.columns[k] = c

Before(e, f) ==
    \/ e.row < f.row
    \/ e.row = f.row /\ ColumnPosition(e.column) < ColumnPosition(f.column)

SummaryEntries(Form(_)) ==
    pc = "written" =>
        /\ \A k \in DOMAIN workbook.summary :
               LET e == workbook.summary[k]
               IN  /\ <<e.row, e.column>> \in Cells(differences)
                   /\ differences.rows[e.row][e.column] = "DIFFERENT"
                   /\ e.value1 = Form(df1.rows[e.row][e.column])
                   /\ e.value2 = Form(df2.rows[e.row][e.column])
        /\ \A rc \in Cells(differences) :
               At(differences, rc) = "DIFFERENT" =>
                   \E k \in DOMAIN workbook.summary :
                       /\ workbook.summary[k].row = rc[1]
                       /\ workbook.summary[k].column = rc[2]
        /\ \A k, l \in DOMAIN workbook.summary :
               k < l => Before(workbook.summary[k], workbook.summary[l])

\* C9 as claimed: value_a and value_b are the values of the aligned tables
\* (an empty cell staying an empty cell of the sheet).
AsIs(v) == IF v.t = "nan" THEN StrVal("") ELSE v

C9_SummaryHoldsValues == SummaryEntries(AsIs)

\* C9 as amended: value_a and value_b are the string forms of the values
\* of the aligned tables, the empty string for an empty cell.
StringForm(v) == IF v.t = "nan" THEN StrVal("") ELSE StrVal(Str(v))

C9_SummaryHoldsStringForms == SummaryEntries(StringForm)

C9_Witness ==
    /\ pc = "written"
    /\ Len(workbook.summary) = 3
    /\ Size(differences) = 4
    /\ \E k \in DOMAIN workbook.summary :
         At(df1, <<workbook.summary[k].row, workbook.summary[k].column>>).t = "int"
    /\ \E k \in DOMAIN workbook.summary :
         At(df1, <<workbook.summary[k].row, workbook.summary[k].column>>).t = "nan"

\* the cells of df are those of table, each with the value it had, and the
\* cells alignment added, which are empty
OriginalsKept(df, table) ==
    /\ Cells(table) \subseteq Cells(df)
    /\ \A rc \in Cells(table) : At(df, rc) = At(table, rc)
    /\ \A rc \in Cells(df) \ Cells(table) : At(df, rc) = NaN

\* C26: alignment changes no original value: an aligned table holds, at
\* every row and column its input table had, the value the input had there,
\* and every cell of a padded row or of an added column is empty.
C26_AlignmentKeepsValues ==
    Compared =>
        LET table1 == Table1
            table2 == Table2
        IN  /\ OriginalsKept(df1, table1)
            /\ OriginalsKept(df2, table2)

\* the first table got a padded row and an added column next to a value
\* of its own, the second table an added column
C26_Witness ==
    /\ Compared
    /\ Len(Table1.rows) = 1
    /\ Len(df1.rows) = 2
    /\ Table1.columns = <<"val">>
    /\ Table2.columns = <<"id">>
    /\ Table1.rows[1]["val"] = StrVal("x")
    /\ df1.rows[1]["val"] = StrVal("x")
    /\ df2.rows[2]["id"] = IntVal(5)

\* C28: the workbook of create_comparison_excel has the sheet
\* Differences_Summary exactly when the matrix has a DIFFERENT cell, the
\* sheet then has as many data rows as the matrix has DIFFERENT cells, and
\* Original_File1 and Original_File2 are sheets of every workbook.
C28_SummarySheetIffDifferent ==
    pc = "written" =>
        LET different == {rc \in Cells(differences) : At(differences, rc) = "DIFFERENT"}
        IN  /\ "Differences_Summary" \in Range(workbook.sheets) <=> different # {}
            /\ Len(workbook.summary) = Cardinality(different)
            /\ "Original_File1" \in Range(workbook.sheets)
            /\ "Original_File2" \in Range(workbook.sheets)
            /\ Len(workbook.sheets) = Cardinality(Range(workbook.sheets))
            /\ Range(workbook.sheets) \subseteq
                   {"Original_File1", "Original_File2", "Differences_Summary"}

\* a workbook written for two tables of four cells that differ in two
C28_Witness ==
    /\ pc = "written"
    /\ Size(differences) = 4
    /\ stats.different_cells = 2
    /\ workbook.sheets = <<"Original_File1", "Original_File2", "Differences_Summary">>
    /\ Len(workbook.summary) = 2

----------------------------------------------------------------------------
(* Properties of the combiners (SpecCombine).                              *)

\* the number of monitors rows the key matches
MatchedMonitors(key) ==
    Cardinality({i \in DOMAIN monitors : key.t # "nan" /\ monitors[i].id = key})

\* the number of conditions rows the key matches, rows with an empty
\* condition_mons not counted
MatchedConditions(key) ==
    Cardinality({i \in DOMAIN conditions :
                    /\ key.t # "nan"
                    /\ conditions[i].id = key
                    /\ conditions[i].condition_mons.t # "nan"})

\* max(m, n, 1) for the entity of this key
ExpectedRows(key) ==
    LET m == MatchedMonitors(key)
        n == MatchedConditions(key)
    IN  IF m >= n /\ m >= 1 THEN m ELSE IF n >= 1 THEN n ELSE 1

RECURSIVE RowsBefore(_, _)
\* the rows the entities before the j-th are to give
RowsBefore(keys, j) ==
    IF j <= 1 THEN 0 ELSE RowsBefore(keys, j - 1) + ExpectedRows(keys[j - 1])

\* tags[i] names the entity of the i-th flat row: the rows are the blocks
\* of the entities in their order, the j-th block of ExpectedRows(keys[j])
\* rows
BlocksOfExpectedRows(tags, entities, keys) ==
    /\ Len(tags) = RowsBefore(keys, Len(keys) + 1)
    /\ \A j \in DOMAIN keys :
           LET before == RowsBefore(keys, j)
           IN  \A i \in 1..ExpectedRows(keys[j]) :
                   /\ before + i \in DOMAIN tags
                   /\ tags[before + i] = entities[j]

\* the keys simple_excel_combine.py flattens: those of the monitors sheet
\* and the non-empty ones of the conditions sheet, ascending
ChildKeys ==
    LET Occurs(k) ==
            \/ \E i \in DOMAIN monitors : monitors[i].id = StrVal(k)
            \/ \E i \in DOMAIN conditions : conditions[i].id = StrVal(k)
    IN  SelectSeq(SortedIds, Occurs)

\* C10: in each of the three flatteners an entity with m matched monitor
\* rows and n matched condition rows gives exactly max(m, n, 1) flat rows.
C10_FlatRowCount ==
    /\ pc = "saved" =>
           BlocksOfExpectedRows(
               [i \in DOMAIN csv_rows |-> <<csv_rows[i].FDIR, csv_rows[i].ID>>],
               [j \in DOMAIN combined_data |-> <<combined_data[j].name, combined_data[j].id>>],
               [j \in DOMAIN combined_data |-> combined_data[j].id])
    /\ pc = "formatted" =>
           BlocksOfExpectedRows(
               [i \in DOMAIN flat_data |-> <<flat_data[i].FDIRs, flat_data[i].id>>],
               [j \in DOMAIN definitions |-> <<definitions[j].FDIRs, definitions[j].id>>],
               [j \in DOMAIN definitions |-> definitions[j].id])
    /\ pc = "flattened" =>
           LET keys == ChildKeys
           IN  BlocksOfExpectedRows(
                   [i \in DOMAIN combined_rows |-> combined_rows[i].id],
                   [j \in DOMAIN keys |-> StrVal(keys[j])],
                   [j \in DOMAIN keys |-> StrVal(keys[j])])

\* a flattener has run on two entities, one with two monitors and one
\* condition, the other with no matched row at all
C10_Witness ==
    /\ pc = "formatted"
    /\ Len(definitions) = 2
    /\ MatchedMonitors(definitions[1].id) = 2
    /\ MatchedConditions(definitions[1].id) = 1
    /\ MatchedMonitors(definitions[2].id) = 0
    /\ MatchedConditions(definitions[2].id) = 0
    /\ \E i \in DOMAIN conditions : conditions[i].id = definitions[2].id
    /\ Len(flat_data) = 3

\* the position in the monitors sheet of the i-th row the key matches
MonitorAt(key, i) ==
    CHOOSE p \in DOMAIN monitors :
        /\ monitors[p].id = key
        /\ Cardinality({q \in 1..p : monitors[q].id = key}) = i

\* the position in the conditions sheet of the i-th row the key matches,
\* rows with an empty condition_mons not counted
ConditionAt(key, i) ==
    CHOOSE p \in DOMAIN conditions :
        /\ conditions[p].id = key
        /\ conditions[p].condition_mons.t # "nan"
        /\ Cardinality({q \in 1..p : /\ conditions[q].id = key
                                      /\ conditions[q].condition_mons.t # "nan"}) = i

\* the child fields the i-th flat row of the entity of this key is to hold:
\* monitor name and threshold, then condition text, count and response
ExpectedFields(key, i) ==
    (IF i <= MatchedMonitors(key)
     THEN <<monitors[MonitorAt(key, i)].mons, monitors[MonitorAt(key, i)].thresholds>>
     ELSE <<StrVal(""), StrVal("")>>)
    \o (IF i <= MatchedConditions(key)
        THEN <<conditions[ConditionAt(key, i)].condition_mons,
               conditions[ConditionAt(key, i)].counts,
               conditions[ConditionAt(key, i)].response>>
        ELSE <<StrVal(""), StrVal(""), StrVal("")>>)

\* fields[p] being the child fields of the p-th flat row: the i-th row of
\* the block of every entity holds the fields of its i-th matched rows
PairedByPosition(fields, keys) ==
    \A j \in DOMAIN keys :
        LET before == RowsBefore(keys, j)
        IN  \A i \in 1..ExpectedRows(keys[j]) :
                /\ before + i \in DOMAIN fields
                /\ fields[before + i] = ExpectedFields(keys[j], i)

\* C11: in each flattened output the i-th flat row of an entity carries the
\* fields of the entity's i-th matched monitor row and of its i-th matched
\* condition row; beyond a child's matched rows the child's fields are
\* empty strings.
C11_PositionalPairing ==
    /\ pc = "saved" =>
           PairedByPosition(
               [p \in DOMAIN csv_rows |->
                   <<csv_rows[p].Monitor, csv_rows[p].Threshold, csv_rows[p].Condition,
                     csv_rows[p].Count, csv_rows[p].Response>>],
               [j \in DOMAIN combined_data |-> combined_data[j].id])
    /\ pc = "formatted" =>
           PairedByPosition(
               [p \in DOMAIN flat_data |->
                   <<flat_data[p].mons, flat_data[p].thresholds, flat_data[p].condition_mons,
                     flat_data[p].counts, flat_data[p].response>>],
               [j \in DOMAIN definitions |-> definitions[j].id])
    /\ pc = "flattened" =>
           LET keys == ChildKeys
           IN  PairedByPosition(
                   [p \in DOMAIN combined_rows |->
                       <<combined_rows[p].mons, combined_rows[p].thresholds,
                         combined_rows[p].condition_mons, combined_rows[p].counts,
                         combined_rows[p].response>>],
                   [j \in DOMAIN keys |-> StrVal(keys[j])])

\* the flat table of simple_excel_combine.py holds an entity of two
\* monitors and one condition, the condition being the second row of its
\* sheet: the entity's first row pairs its first monitor with that
\* condition, its second row holds the second monitor and empty strings
C11_Witness ==
    /\ pc = "flattened"
    /\ Len(combined_rows) = 3
    /\ \E k \in Range(ChildKeys) :
         /\ MatchedMonitors(StrVal(k)) = 2
         /\ MatchedConditions(StrVal(k)) = 1
         /\ ConditionAt(StrVal(k), 1) = 2
         /\ \E p \in DOMAIN combined_rows :
              /\ p + 1 \in DOMAIN combined_rows
              /\ combined_rows[p].id = StrVal(k)
              /\ combined_rows[p].mons = monitors[1].mons
              /\ combined_rows[p].response = conditions[2].response
              /\ combined_rows[p + 1].id = StrVal(k)
              /\ combined_rows[p + 1].mons = monitors[2].mons
              /\ combined_rows[p + 1].response = StrVal("")

\* tags[p] being <<name, key>> of the p-th flat row and fields[p] its child
\* fields: every definitions row without a matched row in any child sheet
\* has a flat row, a single one for each definitions row of its key, and
\* the child fields of its flat rows are empty strings
ChildlessEntitiesKept(tags, fields) ==
    \A j \in DOMAIN definitions :
        LET key == definitions[j].id
            rows == {p \in DOMAIN tags : tags[p][2] = key}
        IN  (MatchedMonitors(key) = 0 /\ MatchedConditions(key) = 0) =>
                /\ \E p \in rows : tags[p][1] = definitions[j].FDIRs
                /\ Cardinality(rows) <=
                       Cardinality({i \in DOMAIN definitions : definitions[i].id = key})
                /\ \A p \in rows :
                       fields[p] = <<StrVal(""), StrVal(""), StrVal(""), StrVal(""), StrVal("")>>

\* C12: in every script that flattens, an entity with no matched row in any
\* child sheet is emitted as exactly one flat row whose child fields are
\* empty strings, so no entity of the definitions sheet is missing from the
\* flattened output.
C12_NoEntityDropped ==
    /\ pc = "saved" =>
           ChildlessEntitiesKept(
               [p \in DOMAIN csv_rows |-> <<csv_rows[p].FDIR, csv_rows[p].ID>>],
               [p \in DOMAIN csv_rows |->
                   <<csv_rows[p].Monitor, csv_rows[p].Threshold, csv_rows[p].Condition,
                     csv_rows[p].Count, csv_rows[p].Response>>])
    /\ pc = "formatted" =>
           ChildlessEntitiesKept(
               [p \in DOMAIN flat_data |-> <<flat_data[p].FDIRs, flat_data[p].id>>],
               [p \in DOMAIN flat_data |->
                   <<flat_data[p].mons, flat_data[p].thresholds, flat_data[p].condition_mons,
                     flat_data[p].counts, flat_data[p].response>>])
    /\ pc = "flattened" =>
           ChildlessEntitiesKept(
               [p \in DOMAIN combined_rows |-> <<combined_rows[p].FDIRs, combined_rows[p].id>>],
               [p \in DOMAIN combined_rows |->
                   <<combined_rows[p].mons, combined_rows[p].thresholds,
                     combined_rows[p].condition_mons, combined_rows[p].counts,
                     combined_rows[p].response>>])

\* C13: the monitor list and the condition list of an entity's combined
\* record hold the rows of the child sheet that match the entity's key, in
\* the order these rows have in the sheet.
C13_SourceOrder ==
    pc \in {"combined", "saved"} =>
        \A j \in DOMAIN combined_data :
            LET record == combined_data[j]
            IN  /\ \E d \in DOMAIN definitions :
                       /\ definitions[d].FDIRs = record.name
                       /\ definitions[d].id = record.id
                /\ Len(record.monitors) = MatchedMonitors(record.id)
                /\ \A i \in DOMAIN record.monitors :
                       /\ record.monitors[i].monitor = monitors[MonitorAt(record.id, i)].mons
                       /\ record.monitors[i].threshold =
                              monitors[MonitorAt(record.id, i)].thresholds
                /\ Len(record.conditions) = MatchedConditions(record.id)
                /\ \A i \in DOMAIN record.conditions :
                       /\ record.conditions[i].condition =
                              conditions[ConditionAt(record.id, i)].condition_mons
                       /\ record.conditions[i].count =
                              conditions[ConditionAt(record.id, i)].counts
                       /\ record.conditions[i].response =
                              conditions[ConditionAt(record.id, i)].response

\* a record holds two monitors and two conditions in the order of the
\* sheets
C13_Witness ==
    /\ pc = "combined"
    /\ \E j \in DOMAIN combined_data :
         /\ Len(combined_data[j].monitors) = 2
         /\ combined_data[j].monitors[1].monitor = monitors[1].mons
         /\ combined_data[j].monitors[2].monitor = monitors[2].mons
         /\ Len(combined_data[j].conditions) = 2
         /\ combined_data[j].conditions[1].response = conditions[1].response
         /\ combined_data[j].conditions[2].response = conditions[2].response

\* the distinct keys of the definitions sheet
ParentKeys == {definitions[d].id : d \in DOMAIN definitions}

\* C14: combine_excel_data gives exactly one combined record for every
\* distinct key of the definitions sheet, holding a display name of that
\* key, the key and the matched rows of each child sheet: no two distinct
\* keys share a record and no key is without one.
C14_OneRecordPerKey ==
    pc \in {"combined", "saved"} =>
        /\ Len(combined_data) = Cardinality(ParentKeys)
        /\ \A key \in ParentKeys :
               Cardinality({j \in DOMAIN combined_data : combined_data[j].id = key}) = 1
        /\ \A j \in DOMAIN combined_data :
               /\ \E d \in DOMAIN definitions :
                      /\ definitions[d].id = combined_data[j].id
                      /\ definitions[d].FDIRs = combined_data[j].name
               /\ Len(combined_data[j].monitors) = MatchedMonitors(combined_data[j].id)
               /\ Len(combined_data[j].conditions) = MatchedConditions(combined_data[j].id)

\* the display names the definitions sheet gives to a key
ParentNames(key) ==
    {definitions[d].FDIRs : d \in {i \in DOMAIN definitions : definitions[i].id = key}}

\* C16: in the flat table of simple_excel_combine.py every key of a child
\* sheet has rows; they are labelled with the display name the definitions
\* sheet gives to the key when it defines the key, and with the placeholder
\* Unknown_<key> when it does not.
C16_UnionLabels ==
    pc = "flattened" =>
        \A j \in DOMAIN ChildKeys :
            LET key == StrVal(ChildKeys[j])
            IN  /\ \E p \in DOMAIN combined_rows : combined_rows[p].id = key
                /\ \A p \in DOMAIN combined_rows :
                       combined_rows[p].id = key =>
                           IF key \in ParentKeys
                           THEN combined_rows[p].FDIRs \in ParentNames(key)
                           ELSE combined_rows[p].FDIRs = StrVal("Unknown_" \o ChildKeys[j])

\* the display name of the last definitions row of a key
LastName(key) ==
    LET last == CHOOSE d \in DOMAIN definitions :
                    /\ definitions[d].id = key
                    /\ \A i \in DOMAIN definitions : definitions[i].id = key => i <= d
    IN  definitions[last].FDIRs

\* C18: for a key on more than one row of the definitions sheet the
\* key-to-name mapping holds the display name of the last of these rows,
\* and that name labels the rows of the key in the flat table.
C18_LastWriteWins ==
    pc = "flattened" =>
        \A key \in ParentKeys :
            Cardinality({d \in DOMAIN definitions : definitions[d].id = key}) > 1 =>
                /\ key.s \in DOMAIN IdToFdir(definitions, AllIds(monitors, conditions))
                /\ IdToFdir(definitions, AllIds(monitors, conditions))[key.s] = LastName(key)
                /\ \A p \in DOMAIN combined_rows :
                       combined_rows[p].id = key => combined_rows[p].FDIRs = LastName(key)

\* the monitor names, condition texts and responses of the child rows whose
\* key is no key of the definitions sheet (a conditions row without an id
\* is one of them)
OrphanValues ==
    LET parents == ParentKeys
    IN  {monitors[p].mons : p \in {i \in DOMAIN monitors : monitors[i].id \notin parents}}
            \cup {conditions[p].response :
                      p \in {i \in DOMAIN conditions : conditions[i].id \notin parents}}
            \cup {conditions[p].condition_mons :
                      p \in {i \in DOMAIN conditions :
                                 /\ conditions[i].id \notin parents
                                 /\ conditions[i].condition_mons.t # "nan"}}

\* name and key are those of a definitions row
OfParent(name, key) == key \in ParentKeys /\ name \in ParentNames(key)

\* C17: in combine_data.py and create_excel_output.py a child row whose key
\* is no parent key is in no combined record, no Holistic_View row and no
\* flattened row, and every record and row is of a parent entity: no
\* placeholder entity is made for such a key.
C17_StrictParentDriven ==
    LET orphans == OrphanValues
    IN
        /\ pc \in {"combined", "saved"} =>
               \A j \in DOMAIN combined_data :
                   /\ OfParent(combined_data[j].name, combined_data[j].id)
                   /\ \A i \in DOMAIN combined_data[j].monitors :
                          combined_data[j].monitors[i].monitor \notin orphans
                   /\ \A i \in DOMAIN combined_data[j].conditions :
                          /\ combined_data[j].conditions[i].condition \notin orphans
                          /\ combined_data[j].conditions[i].response \notin orphans
        /\ pc = "saved" =>
               \A p \in DOMAIN csv_rows :
                   /\ OfParent(csv_rows[p].FDIR, csv_rows[p].ID)
                   /\ csv_rows[p].Monitor \notin orphans
                   /\ csv_rows[p].Condition \notin orphans
                   /\ csv_rows[p].Response \notin orphans
        /\ pc = "formatted" =>
               /\ \A p \in DOMAIN flat_data :
                      /\ OfParent(flat_data[p].FDIRs, flat_data[p].id)
                      /\ flat_data[p].mons \notin orphans
                      /\ flat_data[p].condition_mons \notin orphans
                      /\ flat_data[p].response \notin orphans
               /\ \A p \in DOMAIN holistic_data :
                      /\ \A c \in DOMAIN holistic_data[p] : holistic_data[p][c] \notin orphans
                      /\ holistic_data[p][2] \in {StrVal(k) : k \in Keys} =>
                             holistic_data[p][2] \in ParentKeys

\* create_excel_output.py has run on sheets with a monitors row and a
\* conditions row of a key the parent lacks, next to a parent entity with a
\* matched monitor
C17_Witness ==
    /\ pc = "formatted"
    /\ \E p \in DOMAIN monitors : monitors[p].id \notin ParentKeys
    /\ \E p \in DOMAIN conditions :
         /\ conditions[p].id \notin ParentKeys
         /\ conditions[p].id.t # "nan"
         /\ conditions[p].condition_mons.t # "nan"
    /\ \E p \in DOMAIN flat_data : flat_data[p].mons.s = "m1"
    /\ Len(holistic_data) > 6

\* C19: combine_excel_data raises no error for an entity without matching
\* rows in a child sheet: the entity has its record all the same, and the
\* record's list for that child is empty.
C19_MissingChildren ==
    pc \in {"combined", "saved"} =>
        \A d \in DOMAIN definitions :
            /\ MatchedMonitors(definitions[d].id) = 0 =>
                   \E j \in DOMAIN combined_data :
                       /\ combined_data[j].name = definitions[d].FDIRs
                       /\ combined_data[j].id = definitions[d].id
                       /\ combined_data[j].monitors = <<>>
            /\ MatchedConditions(definitions[d].id) = 0 =>
                   \E j \in DOMAIN combined_data :
                       /\ combined_data[j].name = definitions[d].FDIRs
                       /\ combined_data[j].id = definitions[d].id
                       /\ combined_data[j].conditions = <<>>

----------------------------------------------------------------------------
(* Properties of simple_excel_combine.py (SpecSimple).                     *)

\* the columns of the flat table in a row of Combined_Data
FlatPart(row) ==
    [FDIRs |-> row.FDIRs, id |-> row.id, mons |-> row.mons,
     thresholds |-> row.thresholds, condition_mons |-> row.condition_mons,
     counts |-> row.counts, response |-> row.response]

\* the merge of simple_excel_combine.py had its handler take the flat
\* table as it is: no lookup workbook, one without a column the script
\* needs, or a flat table without rows
Unmerged ==
    \/ response_lookup = Missing
    \/ ~({"response", "response_text", "recovery_steps"} \subseteq
             Range(response_lookup.columns))
    \/ combined_rows = <<>>

\* the positions of the lookup rows of this response code
EntriesOf(response) ==
    {i \in DOMAIN response_lookup.rows : response_lookup.rows[i]["response"] = response}

\* the positions of the rows of Combined_Data made from the p-th flat row
MergedFrom(p) ==
    {q \in DOMAIN df_merged : FlatPart(df_merged[q]) = combined_rows[p]}

\* C29: the merge with the response lookup keeps every flat row, in its
\* place: a row whose response has no lookup entry is kept once with empty
\* response_text and recovery_steps, a row with entries has a row for each
\* entry, and with unique lookup codes the row count is unchanged; without
\* a lookup that can be loaded and merged the output is the flat table.
C29_LeftJoinKeepsRows ==
    pc = "flattened" =>
        IF Unmerged
        THEN df_merged = combined_rows /\ outputs = {output_file}
        ELSE /\ \A q \in DOMAIN df_merged : \E p \in DOMAIN combined_rows : q \in MergedFrom(p)
             /\ \A p \in DOMAIN combined_rows :
                    LET entries == EntriesOf(combined_rows[p].response)
                    IN  /\ MergedFrom(p) # {}
                        /\ entries = {} =>
                               /\ Cardinality(MergedFrom(p)) = 1
                               /\ \A q \in MergedFrom(p) :
                                      /\ df_merged[q].response_text = NaN
                                      /\ df_merged[q].recovery_steps = NaN
                        /\ entries # {} =>
                               /\ Cardinality(MergedFrom(p)) = Cardinality(entries)
                               /\ \A q \in MergedFrom(p) : \E i \in entries :
                                      /\ df_merged[q].response_text =
                                             response_lookup.rows[i]["response_text"]
                                      /\ df_merged[q].recovery_steps =
                                             response_lookup.rows[i]["recovery_steps"]
             /\ \A p1, p2 \in DOMAIN combined_rows :
                    p1 < p2 => \A q1 \in MergedFrom(p1), q2 \in MergedFrom(p2) : q1 < q2
             /\ (\A i, j \in DOMAIN response_lookup.rows :
                     response_lookup.rows[i]["response"] = response_lookup.rows[j]["response"]
                         => i = j)
                    => Len(df_merged) = Len(combined_rows)
             /\ outputs = {output_file}

\* a flat table of two rows was merged with a lookup of unique codes: the
\* row of response r1 got the text of its entry, the row without a
\* response stayed without a text
C29_Witness ==
    /\ pc = "flattened"
    /\ ~Unmerged
    /\ Len(response_lookup.rows) = 2
    /\ response_lookup.rows[1]["response"] # response_lookup.rows[2]["response"]
    /\ Len(combined_rows) = 2
    /\ Len(df_merged) = 2
    /\ \E q \in DOMAIN df_merged :
         /\ df_merged[q].response = StrVal("r1")
         /\ df_merged[q].response_text # NaN
    /\ \E q \in DOMAIN df_merged :
         /\ df_merged[q].response = StrVal("")
         /\ df_merged[q].response_text = NaN

\* the position of an id in the ascending order of the ids
Rank(id) == CHOOSE k \in DOMAIN SortedIds : StrVal(SortedIds[k]) = id

\* ids being the ids of the rows of a table: the ids are those of the
\* child sheets, the rows of an id are next to each other, and the ids
\* ascend
BlocksAscending(ids) ==
    LET child == {monitors[i].id : i \in DOMAIN monitors}
                     \cup {conditions[i].id :
                               i \in {j \in DOMAIN conditions : conditions[j].id # NaN}}
    IN  /\ Range(ids) = child
        /\ \A p, q \in DOMAIN ids : p < q => Rank(ids[p]) <= Rank(ids[q])
        /\ \A d \in DOMAIN definitions :
               definitions[d].id \notin child => definitions[d].id \notin Range(ids)

\* C30: the flat table of simple_excel_combine.py, before and after the
\* merge, has rows for exactly the ids of the monitors sheet and the
\* non-empty ids of the conditions sheet, the rows of an id in one block
\* and the blocks in ascending order of the ids; an id of the definitions
\* sheet that is in neither child sheet has no row.
C30_UnionOfChildKeys ==
    pc = "flattened" =>
        /\ BlocksAscending([p \in DOMAIN combined_rows |-> combined_rows[p].id])
        /\ BlocksAscending([p \in DOMAIN df_merged |-> df_merged[p].id])

\* the monitors sheet lists fpu_tracker before fpu_batt, the definitions
\* sheet has no more than fpu_batt, and a conditions row has no id: the
\* flat table has the block of fpu_batt, then that of fpu_tracker
C30_Witness ==
    /\ pc = "flattened"
    /\ Len(monitors) = 2
    /\ monitors[1].id = StrVal("fpu_tracker")
    /\ monitors[2].id = StrVal("fpu_batt")
    /\ \E i \in DOMAIN conditions : conditions[i].id = NaN
    /\ Len(combined_rows) = 2
    /\ combined_rows[1].id = StrVal("fpu_batt")
    /\ combined_rows[2].id = StrVal("fpu_tracker")

----------------------------------------------------------------------------
(* Properties of the scripts that read inputs/data.xlsx (SpecData).        *)

\* responses being the responses an output shows for the entity of this
\* key: they are those of the conditions rows that have the key and a
\* condition_mons, and of no other row
ExactlyValidConditions(responses, key) ==
    \A p \in DOMAIN conditions :
        conditions[p].response \in responses <=>
            (conditions[p].id = key /\ conditions[p].condition_mons.t # "nan")

\* C15: a conditions row without condition_mons is in no entity's condition
\* list and in no flattened row, and every other conditions row of the
\* entity's key is: in combine_data.py, create_excel_output.py,
\* simple_excel_combine.py and ExcelMultiSheetReader.get_conditions_for_id.
C15_EmptyConditionsDropped ==
    /\ pc \in {"combined", "saved"} =>
           \A j \in DOMAIN combined_data :
               ExactlyValidConditions(
                   {combined_data[j].conditions[i].response :
                       i \in DOMAIN combined_data[j].conditions},
                   combined_data[j].id)
    /\ pc = "saved" =>
           \A j \in DOMAIN combined_data :
               ExactlyValidConditions(
                   {csv_rows[p].Response :
                       p \in {q \in DOMAIN csv_rows : csv_rows[q].ID = combined_data[j].id}},
                   combined_data[j].id)
    /\ pc = "formatted" =>
           /\ \A key \in ParentKeys :
                  ExactlyValidConditions(
                      {flat_data[p].response :
                          p \in {q \in DOMAIN flat_data : flat_data[q].id = key}},
                      key)
           /\ \A p \in DOMAIN conditions :
                  (\E q \in DOMAIN holistic_data : holistic_data[q][6] = conditions[p].response)
                      <=> /\ conditions[p].id \in ParentKeys
                          /\ conditions[p].condition_mons.t # "nan"
    /\ pc = "flattened" =>
           \A j \in DOMAIN ChildKeys :
               ExactlyValidConditions(
                   {combined_rows[p].response :
                       p \in {q \in DOMAIN combined_rows :
                                  combined_rows[q].id = StrVal(ChildKeys[j])}},
                   StrVal(ChildKeys[j]))
    /\ (/\ program = "excel_reader"
        /\ Len(returned.op) = 2
        /\ returned.op[1] = "get_conditions_for_id"
        /\ returned.kind = "DataFrame") =>
           /\ \A i \in DOMAIN returned.rows : \E p \in DOMAIN conditions :
                  returned.rows[i] = conditions[p]
           /\ ExactlyValidConditions(
                  {returned.rows[i].response : i \in DOMAIN returned.rows},
                  StrVal(returned.op[2]))

\* get_conditions_for_id("fpu_batt") has returned the second of two
\* conditions rows of fpu_batt, the first of which lacks its condition_mons
C15_Witness ==
    /\ program = "excel_reader"
    /\ returned.op = <<"get_conditions_for_id", "fpu_batt">>
    /\ Len(conditions) = 2
    /\ conditions[1].id = StrVal("fpu_batt")
    /\ conditions[1].condition_mons = NaN
    /\ conditions[2].id = StrVal("fpu_batt")
    /\ returned.rows = <<conditions[2]>>

----------------------------------------------------------------------------
(* Properties of all the scripts (Spec).                                   *)

\* the required columns that the input of generate_lookup_table.py lacks
LackingCols ==
    IF file1.kind # "sheet"
    THEN {}
    ELSE {"response", "response_text", "recovery_text"} \ Range(file1.columns)

WrittenOnce(base, others) ==
    LET default == base \o ".xlsx"
        alternate == base \o "_" \o Timestamp \o ".xlsx"
    IN  /\ locked => output_file = alternate /\ default \notin outputs
        /\ ~locked => output_file = default /\ alternate \notin outputs
        /\ outputs \ others = {output_file}

\* C21: excel_compare.py and simple_excel_combine.py write their workbook
\* once: to a path with a timestamp, and not to the default path, when the
\* default path cannot be opened for writing, and to the default path when
\* it can.
C21_WriteConflictFallback ==
    /\ (program = "excel_compare" /\ pc = "written") =>
           WrittenOnce("outputs/excel_comparison",
                       {"outputs/comparison_file1.csv", "outputs/comparison_file2.csv"})
    /\ (program = "combiners" /\ pc = "flattened") =>
           WrittenOnce("outputs/combined_flat_with_responses", {})

\* excel_compare.py found outputs/excel_comparison.xlsx open elsewhere and
\* wrote a workbook with a summary sheet to the path with the timestamp
C21_Witness ==
    /\ program = "excel_compare"
    /\ pc = "written"
    /\ locked
    /\ output_file = "outputs/excel_comparison_YYYYMMDD_HHMMSS.xlsx"
    /\ output_file \in outputs
    /\ Len(workbook.sheets) = 3
\* a failure that is no absent input, no absent column and no output path
\* open elsewhere has ended the run: an input file that is no workbook, or
\* the division by zero of compare_excel_files
UnexpectedFailure ==
    \/ program = "excel_compare" /\ pc \in {"load_failed", "crashed"}
    \/ program = "combiners" /\ pc \in {"traceback", "error_printed"}
    \/ program = "generate_lookup_table" /\ file1 = Corrupt /\ pc \in {"exit_0", "exit_1"}

\* C22: a run that an unexpected failure has ended has a non-zero exit
\* status.
C22_UnexpectedFailureExitsNonZero ==
    UnexpectedFailure => ExitStatus > 0
----------------------------------------------------------------------------
(* Properties of generate_lookup_table.py (SpecLookup).                    *)

\* the lookup is built
LookupBuilt ==
    /\ program = "generate_lookup_table"
    /\ pc # "start"
    /\ returned.kind = "True"

\* the trimmed non-blank lines of a cell, none for an empty cell
NonBlankLines(cell) == IF IsNa(cell) THEN <<>> ELSE Lines(cell)

\* a line that is not blank, has no blank at either end and no line break
TrimmedLine(line) ==
    LET chars == Chars(line)
    IN  /\ chars # <<>>
        /\ chars[1] # " " /\ chars[Len(chars)] # " "
        /\ \A k \in DOMAIN chars : chars[k] # "\n"

\* C23: every entry of the lookup is that of a row of its response code:
\* it has response_text, a trimmed line, when the row's response text has
\* exactly one non-blank line, response_text_lines, the trimmed non-blank
\* lines in their order, when it has two or more, and neither when it has
\* none, never both; it has recovery_steps exactly when the row's recovery
\* text has a non-blank line, and recovery_steps is then the list of the
\* trimmed non-blank lines in their order.
C23_EntryFields ==
    LookupBuilt =>
        LET df == ReadExcel(file1)
        IN  \A j \in DOMAIN clean_lookup_dict :
                LET e == clean_lookup_dict[j].entry
                    lists == DOMAIN e \cap {"response_text_lines", "recovery_steps"}
                IN  /\ DOMAIN e \subseteq {"response_text", "response_text_lines",
                                           "recovery_steps"}
                    /\ ~({"response_text", "response_text_lines"} \subseteq DOMAIN e)
                    /\ "response_text" \in DOMAIN e => TrimmedLine(e.response_text)
                    /\ "response_text_lines" \in DOMAIN e => Len(e.response_text_lines) >= 2
                    /\ \A f \in lists : \A k \in DOMAIN e[f] : TrimmedLine(e[f][k])
                    /\ \E i \in DOMAIN df.rows :
                          LET text == NonBlankLines(df.rows[i].response_text)
                              steps == NonBlankLines(df.rows[i].recovery_text)
                          IN  /\ df.rows[i].response = clean_lookup_dict[j].key
                              /\ Len(text) = 0 =>
                                     DOMAIN e \cap {"response_text", "response_text_lines"} = {}
                              /\ Len(text) = 1 =>
                                     /\ "response_text" \in DOMAIN e
                                     /\ e.response_text = text[1]
                              /\ Len(text) >= 2 =>
                                     /\ "response_text_lines" \in DOMAIN e
                                     /\ e.response_text_lines = text
                              /\ "recovery_steps" \in DOMAIN e <=> Len(steps) >= 1
                              /\ Len(steps) >= 1 => e.recovery_steps = steps

\* the lookup of a sheet whose one row has the response text "b", an empty
\* line, " a" and the recovery text "a\nb" written with a backslash: the
\* entry has the lines b, a and the steps a, b
C23_Witness ==
    /\ LookupBuilt
    /\ Len(file1.rows) = 1
    /\ file1.rows[1].response_text = Text("b\n\n a")
    /\ file1.rows[1].recovery_text = Text("a\\nb")
    /\ Len(clean_lookup_dict) = 1
    /\ clean_lookup_dict[1].entry =
           [response_text_lines |-> <<"b", "a">>, recovery_steps |-> <<"a", "b">>]
\* the rows of df that have the response code key
CodeRows(df, key) == {i \in DOMAIN df.rows : df.rows[i].response = key}

\* row i is the first row of df with its response code, response text and
\* recovery text
FirstOfItsKind(df, i) == \A h \in 1..(i - 1) : df.rows[h] # df.rows[i]

LastOf(S) == CHOOSE i \in S : \A k \in S : k <= i

\* the response codes of df
CodesOf(df) == {df.rows[i].response : i \in DOMAIN df.rows} \ {NaN}

\* C27 as stated: the lookup has exactly one entry for every response code
\* of the input and none for an empty one, and the entry of a code is built
\* from the last row of that code.
C27_LastRowWins ==
    LookupBuilt =>
        LET df == ReadExcel(file1)
        IN  /\ {clean_lookup_dict[j].key : j \in DOMAIN clean_lookup_dict} = CodesOf(df)
            /\ Len(clean_lookup_dict) = Cardinality(CodesOf(df))
            /\ \A j \in DOMAIN clean_lookup_dict :
                   clean_lookup_dict[j].entry =
                       ResponseEntry(df.rows[LastOf(CodeRows(df, clean_lookup_dict[j].key))])

\* C27: the lookup has exactly one entry for every response code of the
\* input and none for an empty one, and the entry of a code is built from
\* the last of the rows of that code that are the first with their
\* response text and recovery text.
C27_LastDistinctRowWins ==
    LookupBuilt =>
        LET df == ReadExcel(file1)
        IN  /\ {clean_lookup_dict[j].key : j \in DOMAIN clean_lookup_dict} = CodesOf(df)
            /\ Len(clean_lookup_dict) = Cardinality(CodesOf(df))
            /\ \A j \in DOMAIN clean_lookup_dict :
                   LET firsts == {i \in CodeRows(df, clean_lookup_dict[j].key) :
                                     FirstOfItsKind(df, i)}
                   IN  clean_lookup_dict[j].entry = ResponseEntry(df.rows[LastOf(firsts)])

\* the lookup of three rows of one response code, the third equal to the
\* first and the second with another response text: the entry is that of
\* the second row and not that of the third
C27_Witness ==
    /\ LookupBuilt
    /\ Len(file1.rows) = 3
    /\ file1.rows[1].response = Text("r1")
    /\ file1.rows[3] = file1.rows[1]
    /\ file1.rows[2].response = Text("r1")
    /\ file1.rows[2].response_text # file1.rows[1].response_text
    /\ Len(clean_lookup_dict) = 1
    /\ clean_lookup_dict[1].entry = ResponseEntry(ReadExcel(file1).rows[2])
    /\ clean_lookup_dict[1].entry # ResponseEntry(ReadExcel(file1).rows[3])
----------------------------------------------------------------------------
(* Properties of excel_reader.py (SpecReader).                             *)

\* nothing is loaded, read or written
Unloaded == xl_file = "None" /\ sheets_data = <<>> /\ outputs = {}

\* the operation of this step is load_file and returns True
LoadFileSucceeds == returned'.op = <<"load_file">> /\ returned'.kind = "True"

\* C24: the reader starts with nothing loaded, read or written, and every
\* operation before the first load_file that returns True leaves it so:
\* read_all_sheets returns an empty dict, read_specific_sheet and the
\* three get operations return None, the two exports return False.
C24_NothingBeforeLoad ==
    /\ program = "excel_reader" => Unloaded
    /\ [][(program = "excel_reader" /\ Unloaded /\ ~LoadFileSucceeds) =>
              /\ Unloaded'
              /\ returned'.op[1] \in {"load_file", "read_all_sheets", "read_specific_sheet",
                                      "get_definitions_mapping", "get_monitors_for_id",
                                      "get_conditions_for_id", "export_to_json",
                                      "export_sheet_to_csv"}
              /\ returned'.op[1] = "load_file" => returned'.kind = "False"
              /\ returned'.op[1] = "read_all_sheets" =>
                     returned'.kind = "dict" /\ returned'.keys = {}
              /\ returned'.op[1] \in {"read_specific_sheet", "get_definitions_mapping",
                                      "get_monitors_for_id", "get_conditions_for_id"} =>
                     returned'.kind = "None"
              /\ returned'.op[1] \in {"export_to_json", "export_sheet_to_csv"} =>
                     returned'.kind = "False"]_vars

\* on a file that is no workbook, which load_file cannot have loaded,
\* export_sheet_to_csv of the definitions sheet has returned False and
\* nothing is written
C24_Witness ==
    /\ program = "excel_reader"
    /\ data_exists /\ data_corrupt
    /\ returned = Returned(<<"export_sheet_to_csv", "definitions">>, "False", {}, <<>>)
    /\ outputs = {}
\* the operation of this step is read_all_sheets and returns the sheets
ReadAllSheetsSucceeds == returned'.op = <<"read_all_sheets">> /\ returned'.keys # {}

\* C25: read_specific_sheet, the three get operations and the two exports
\* leave sheets_data as it is; sheets_data is empty at the start and stays
\* empty up to the first read_all_sheets that succeeds, whatever
\* read_specific_sheet has returned, and up to then the three get
\* operations return None and the two exports return False.
C25_OnlyReadAllSheetsStores ==
    /\ program = "excel_reader" => sheets_data = <<>>
    /\ [][program = "excel_reader" =>
              /\ returned'.op[1] \in {"read_specific_sheet", "get_definitions_mapping",
                                      "get_monitors_for_id", "get_conditions_for_id",
                                      "export_to_json", "export_sheet_to_csv"} =>
                     UNCHANGED sheets_data
              /\ (sheets_data = <<>> /\ ~ReadAllSheetsSucceeds) =>
                     /\ sheets_data' = <<>>
                     /\ returned'.op[1] \in {"get_definitions_mapping", "get_monitors_for_id",
                                             "get_conditions_for_id"} =>
                            returned'.kind = "None"
                     /\ returned'.op[1] \in {"export_to_json", "export_sheet_to_csv"} =>
                            returned'.kind = "False"]_vars

====
